---- MODULE Spec2Model ----
(***************************************************************************)
(* OpenFiles TypeScript SDK: path algebra (utils/path.ts), OpenFilesClient *)
(* (core/client.ts), OpenFilesTools and its OpenAI provider                *)
(* (tools/tools.ts) and the OpenAI drop-in wrapper (openai/client.ts).     *)
(*                                                                         *)
(* A path is a sequence of one-character strings.  JavaScript `undefined`  *)
(* and '' are both falsy and the code only ever tests base paths, paths    *)
(* and directories for truthiness, so both are the empty sequence here.    *)
(***************************************************************************)
EXTENDS Integers, Sequences, FiniteSets, TLC

\* ------------------------------------------------------------------ bounds
MaxDepth == 2
MaxCalls == 2
MaxLen == 3

\* ------------------------------------------------------- utils/path.ts

\* String.prototype.startsWith
StartsWith(s, pre) ==
    /\ Len(pre) <= Len(s)
    /\ SubSeq(s, 1, Len(pre)) = pre

\* .replace(/^\/+/, '')
RECURSIVE StripLeadingSlashes(_)
StripLeadingSlashes(p) ==
    IF p # <<>> /\ Head(p) = "/" THEN StripLeadingSlashes(Tail(p)) ELSE p

\* .replace(/\/+/g, '/')
RECURSIVE CollapseSlashes(_)
CollapseSlashes(p) ==
    IF p = <<>> THEN <<>>
    ELSE IF Len(p) >= 2 /\ p[1] = "/" /\ p[2] = "/" THEN CollapseSlashes(Tail(p))
    ELSE <<Head(p)>> \o CollapseSlashes(Tail(p))

\* .replace(/\/+$/, '')
RECURSIVE StripTrailingSlashes(_)
StripTrailingSlashes(p) ==
    IF p # <<>> /\ p[Len(p)] = "/"
    THEN StripTrailingSlashes(SubSeq(p, 1, Len(p) - 1))
    ELSE p

\* normalizePath that keeps trailing slashes
normalizePathKeepingTrailing(path) ==
    IF path = <<>> THEN <<>>
    ELSE CollapseSlashes(StripLeadingSlashes(path))

normalizePath(path) ==
    IF path = <<>> THEN <<>>
    ELSE StripTrailingSlashes(CollapseSlashes(StripLeadingSlashes(path)))

\* joinPaths that appends the relative path as given
joinPathsUnnormalized(basePath, relativePath) ==
    IF basePath = <<>> /\ relativePath = <<>> THEN <<>>
    ELSE IF basePath = <<>> THEN normalizePath(relativePath)
    ELSE IF relativePath = <<>> THEN normalizePath(basePath)
    ELSE normalizePath(basePath) \o <<"/">> \o relativePath

joinPaths(basePath, relativePath) ==
    IF basePath = <<>> /\ relativePath = <<>> THEN <<>>
    ELSE IF basePath = <<>> THEN normalizePath(relativePath)
    ELSE IF relativePath = <<>> THEN normalizePath(basePath)
    ELSE LET normalizedBase     == normalizePath(basePath)
             normalizedRelative == normalizePath(relativePath)
         IN  IF normalizedBase = <<>> THEN normalizedRelative
             ELSE IF normalizedRelative = <<>> THEN normalizedBase
             ELSE normalizedBase \o <<"/">> \o normalizedRelative

\* constructorBasePath || scopedBasePath || operationBasePath || ''
EffectiveBasePathConstructorFirst(constructorBasePath, scopedBasePath, operationBasePath) ==
    IF constructorBasePath # <<>> THEN constructorBasePath
    ELSE IF scopedBasePath # <<>> THEN scopedBasePath
    ELSE operationBasePath

\* operationBasePath || scopedBasePath || constructorBasePath || ''
EffectiveBasePath(constructorBasePath, scopedBasePath, operationBasePath) ==
    IF operationBasePath # <<>> THEN operationBasePath
    ELSE IF scopedBasePath # <<>> THEN scopedBasePath
    ELSE constructorBasePath

resolvePath(constructorBasePath, scopedBasePath, operationBasePath, relativePath) ==
    LET effectiveBasePath ==
            EffectiveBasePath(constructorBasePath, scopedBasePath, operationBasePath)
    IN  IF relativePath = <<>> THEN normalizePath(effectiveBasePath)
        ELSE joinPaths(effectiveBasePath, relativePath)

\* characters String.prototype.trim removes (those the inputs can contain)
WhitespaceChars == {" ", "\t", "\n"}
\* /[<>:"|?*\x00-\x1f]/ (the control characters the inputs can contain)
InvalidChars == {"<", ">", ":", "\"", "|", "?", "*", "\t", "\n"}

\* isValidPath without the test for path traversal
isValidPathAllowingTraversal(path) ==
    /\ path # <<>>
    /\ \E i \in 1..Len(path) : path[i] \notin WhitespaceChars
    /\ ~ \E i \in 1..Len(path) : path[i] \in InvalidChars

isValidPath(path) ==
    /\ path # <<>>
    /\ \E i \in 1..Len(path) : path[i] \notin WhitespaceChars
    /\ ~ \E i \in 1..(Len(path) - 1) : path[i] = "." /\ path[i + 1] = "."
    /\ ~ \E i \in 1..Len(path) : path[i] \in InvalidChars

\* ------------------------------------------------------- core/client.ts

ClientOps == {"writeFile", "readFile", "editFile", "appendToFile",
              "overwriteFile", "listFiles", "getFileMetadata", "getFileVersions"}

\* new OpenFilesClient(config, scopedBasePath): the fields the paths depend on
OpenFilesClient(configBasePath, scopedBasePath) ==
    [basePath |-> configBasePath, scopedBasePath |-> scopedBasePath]

\* withBasePath that starts from the constructor's base path only
OpenFilesClient_withBasePathUnchained(client, basePath) ==
    OpenFilesClient(client.basePath,
                    IF client.basePath # <<>>
                    THEN joinPaths(client.basePath, basePath)
                    ELSE basePath)

\* OpenFilesClient.withBasePath
OpenFilesClient_withBasePath(client, basePath) ==
    LET currentEffectiveBasePath ==
            IF client.scopedBasePath # <<>> THEN client.scopedBasePath
            ELSE client.basePath
        resolvedBasePath ==
            IF currentEffectiveBasePath # <<>>
            THEN joinPaths(currentEffectiveBasePath, basePath)
            ELSE basePath
    IN  OpenFilesClient(client.basePath, resolvedBasePath)

\* resolvedDirectory of OpenFilesClient.listFiles
ListDirectory(client, operationBasePath, directory) ==
    IF directory # <<>>
    THEN resolvePath(client.basePath, client.scopedBasePath, operationBasePath, directory)
    ELSE LET root == resolvePath(client.basePath, client.scopedBasePath,
                                 operationBasePath, <<>>)
         IN  IF root # <<>> THEN root ELSE <<"/">>

\* a request path that leaves the base paths out
RequestPathUnscoped(client, op, operationBasePath, relative) == normalizePath(relative)

\* the path or directory an operation of the client puts in its request
RequestPath(client, op, operationBasePath, relative) ==
    IF op = "listFiles"
    THEN ListDirectory(client, operationBasePath, relative)
    ELSE resolvePath(client.basePath, client.scopedBasePath, operationBasePath, relative)

\* one error message for every operation
FailureMessageShared(op) == "Request failed"

\* the error each operation throws when the response lacks success or data
FailureMessage(op) ==
    CASE op = "writeFile"       -> "Failed to write file"
      [] op = "readFile"        -> "Failed to read file"
      [] op = "editFile"        -> "Failed to edit file"
      [] op = "appendToFile"    -> "Failed to append to file"
      [] op = "overwriteFile"   -> "Failed to overwrite file"
      [] op = "listFiles"       -> "Failed to list files"
      [] op = "getFileMetadata" -> "Failed to get file metadata"
      [] op = "getFileVersions" -> "Failed to get file versions"

\* `version: undefined` of a request
NoVersion == -1

\* `limit: undefined`, `offset: undefined` of params, and a field left out
NoLimit == -1
NoOffset == -1
Unset == "unset"

\* the request an operation of the client sends: params is
\* [basePath, path, content, oldString, newString, version, contentType,
\* isBase64, recursive, limit, offset], path being the directory of listFiles
ClientRequest(client, op, params) ==
    [op          |-> op,
     path        |-> RequestPath(client, op, params.basePath, params.path),
     content     |-> IF op \in {"writeFile", "appendToFile", "overwriteFile"}
                     THEN params.content ELSE <<>>,
     oldString   |-> IF op = "editFile" THEN params.oldString ELSE <<>>,
     newString   |-> IF op = "editFile" THEN params.newString ELSE <<>>,
     version     |-> IF op \in {"readFile", "getFileMetadata"} THEN params.version
                     ELSE NoVersion,
     contentType |-> IF op = "writeFile" THEN params.contentType ELSE Unset,
     isBase64    |-> IF op \in {"writeFile", "overwriteFile"} THEN params.isBase64
                     ELSE Unset,
     recursive   |-> IF op = "listFiles" THEN params.recursive ELSE Unset,
     limit       |-> IF op \in {"listFiles", "getFileVersions"}
                     THEN IF params.limit \in {NoLimit, 0} THEN 10 ELSE params.limit
                     ELSE NoLimit,
     offset      |-> IF op \in {"listFiles", "getFileVersions"}
                     THEN IF params.offset \in {NoOffset, 0} THEN 0 ELSE params.offset
                     ELSE NoOffset]

\* a value a rejected backend call threw: an Error, a string, an object
\* with or without a message, or anything else
Thrown(type, message) == [kind |-> "throw", thrown |-> type, message |-> message]
NetworkError == Thrown("Error", "Network error")

\* handleError: the message of the Error it returns
handleError(error) ==
    CASE error.thrown = "Error"  -> error.message
      [] error.thrown = "string" -> error.message
      [] error.thrown = "object" /\ "message" \in DOMAIN error -> error.message
      [] OTHER -> "An unknown error occurred"

\* `!response.data?.data`: the data of a response is a record, or a string
\* [kind |-> "string", value], which is falsy when empty
Truthy(data) == ~ (data.kind = "string" /\ data.value = <<>>)

\* what the operation returns or throws once the backend call has settled:
\* outcome is a thrown value or [kind |-> "response", success] with a data
\* field unless the response has no data
ClientSettle(op, outcome) ==
    IF outcome.kind = "throw"
    THEN [ok |-> FALSE, message |-> handleError(outcome)]
    ELSE IF ~ outcome.success \/ "data" \notin DOMAIN outcome
    THEN [ok |-> FALSE, message |-> FailureMessage(op)]
    ELSE IF ~ Truthy(outcome.data)
    THEN [ok |-> FALSE, message |-> FailureMessage(op)]
    ELSE IF op = "readFile"
    THEN IF outcome.data.kind = "string"
         THEN [ok |-> TRUE, value |-> [kind |-> "content", content |-> outcome.data.value]]
         ELSE IF "content" \in DOMAIN outcome.data /\ outcome.data.content # <<>>
         THEN [ok |-> TRUE, value |-> [kind |-> "content", content |-> outcome.data.content]]
         ELSE [ok |-> FALSE, message |-> "Invalid response format"]
    ELSE IF op = "listFiles"
    THEN [ok |-> TRUE,
          value |-> [kind  |-> "files",
                     files |-> IF "files" \in DOMAIN outcome.data
                               THEN outcome.data.files ELSE {},
                     total |-> IF "total" \in DOMAIN outcome.data
                               THEN outcome.data.total ELSE 0]]
    ELSE IF op = "getFileVersions"
    THEN [ok |-> TRUE,
          value |-> [kind     |-> "versions",
                     versions |-> IF "versions" \in DOMAIN outcome.data
                                  THEN outcome.data.versions ELSE {},
                     total    |-> IF "total" \in DOMAIN outcome.data
                                  THEN outcome.data.total ELSE 0]]
    ELSE [ok |-> TRUE, value |-> outcome.data]

\* ------------------------------------------------------------ backend
\* The file service behind the generated HTTP functions.  files maps each
\* stored path to the sequence of its versions' contents.

FileMetadata(path, version, content) ==
    [kind |-> "metadata", path |-> path, version |-> version, size |-> Len(content)]

Latest(files, path) == files[path][Len(files[path])]

\* content with its first occurrence of old replaced by new
ReplaceFirst(content, old, new) ==
    LET i == CHOOSE k \in 1..(Len(content) - Len(old) + 1) :
                 /\ SubSeq(content, k, k + Len(old) - 1) = old
                 /\ \A j \in 1..(k - 1) : SubSeq(content, j, j + Len(old) - 1) # old
    IN  SubSeq(content, 1, i - 1) \o new \o SubSeq(content, i + Len(old), Len(content))

Contains(content, old) ==
    /\ old # <<>>
    /\ \E k \in 1..(Len(content) - Len(old) + 1) : SubSeq(content, k, k + Len(old) - 1) = old

InDirectory(path, directory) ==
    LET d == normalizePath(directory)
    IN  d = <<>> \/ StartsWith(path, d \o <<"/">>)

Failure == [kind |-> "response", success |-> FALSE]
Success(data) == [kind |-> "response", success |-> TRUE, data |-> data]

\* the response of the service to a request
BackendResponse(files, req) ==
    LET exists == req.path \in DOMAIN files
    IN  CASE req.op = "writeFile" ->
                IF exists THEN Failure
                ELSE Success(FileMetadata(req.path, 1, req.content))
          [] req.op = "readFile" ->
                IF ~ exists THEN Failure
                ELSE IF req.version = NoVersion
                THEN Success([kind |-> "file", path |-> req.path,
                              version |-> Len(files[req.path]),
                              content |-> Latest(files, req.path)])
                ELSE IF req.version \in 1..Len(files[req.path])
                THEN Success([kind |-> "file", path |-> req.path,
                              version |-> req.version,
                              content |-> files[req.path][req.version]])
                ELSE Failure
          [] req.op = "editFile" ->
                IF exists /\ Contains(Latest(files, req.path), req.oldString)
                THEN Success(FileMetadata(req.path, Len(files[req.path]) + 1,
                        ReplaceFirst(Latest(files, req.path), req.oldString, req.newString)))
                ELSE Failure
          [] req.op = "appendToFile" ->
                IF exists
                THEN Success(FileMetadata(req.path, Len(files[req.path]) + 1,
                        Latest(files, req.path) \o req.content))
                ELSE Failure
          [] req.op = "overwriteFile" ->
                IF exists
                THEN Success(FileMetadata(req.path, Len(files[req.path]) + 1, req.content))
                ELSE Failure
          [] req.op = "listFiles" ->
                LET found == {p \in DOMAIN files : InDirectory(p, req.path)}
                IN  Success([kind  |-> "files",
                             files |-> {FileMetadata(p, Len(files[p]), Latest(files, p)) : p \in found},
                             total |-> Cardinality(found)])
          [] req.op = "getFileMetadata" ->
                IF ~ exists THEN Failure
                ELSE IF req.version = NoVersion
                THEN Success(FileMetadata(req.path, Len(files[req.path]), Latest(files, req.path)))
                ELSE IF req.version \in 1..Len(files[req.path])
                THEN Success(FileMetadata(req.path, req.version, files[req.path][req.version]))
                ELSE Failure
          [] req.op = "getFileVersions" ->
                IF ~ exists THEN Failure
                ELSE Success([kind     |-> "versions",
                              versions |-> {FileMetadata(req.path, v, files[req.path][v]) :
                                               v \in 1..Len(files[req.path])},
                              total    |-> Len(files[req.path])])

\* the stored files after the service has served a request
BackendStore(files, req) ==
    IF ~ BackendResponse(files, req).success THEN files
    ELSE CASE req.op = "writeFile" ->
                [p \in DOMAIN files \cup {req.path} |->
                    IF p = req.path THEN <<req.content>> ELSE files[p]]
           [] req.op = "editFile" ->
                [files EXCEPT ![req.path] = Append(@,
                    ReplaceFirst(Latest(files, req.path), req.oldString, req.newString))]
           [] req.op = "appendToFile" ->
                [files EXCEPT ![req.path] = Append(@, Latest(files, req.path) \o req.content)]
           [] req.op = "overwriteFile" ->
                [files EXCEPT ![req.path] = Append(@, req.content)]
           [] OTHER -> files

\* ------------------------------------------------------- tools/tools.ts

\* the catalog, in the order of `definitions`
ToolNames == <<"write_file", "read_file", "edit_file", "list_files",
               "append_to_file", "overwrite_file", "get_file_metadata",
               "get_file_versions">>

isOpenFilesTool(name) == \E i \in 1..Len(ToolNames) : ToolNames[i] = name

\* A tool call carries the members of its `function` as name (function.name),
\* json (whether function.arguments parses) and args (what it parses to); a
\* tool call without a `function` has none of the three.
\* a function.name that is not a string
NotAString == "<number>"

\* isFunctionToolCall: `type` is never read
isFunctionToolCall(toolCall) ==
    "name" \in DOMAIN toolCall /\ toolCall.name # NotAString

\* OpenFilesTools.getEffectiveBasePath
getEffectiveBasePath(client, basePath) ==
    LET clientBasePath ==
            IF client.scopedBasePath # <<>> THEN client.scopedBasePath
            ELSE client.basePath
    IN  IF basePath # <<>>
        THEN IF clientBasePath # <<>>
             THEN clientBasePath \o <<"/">> \o basePath
             ELSE basePath
        ELSE clientBasePath

\* new OpenAIProvider(client, basePath)
OpenAIProvider(client, basePath) == [client |-> client, basePath |-> basePath]

\* new AnthropicProvider(client, basePath)
AnthropicProvider(client, basePath) == [client |-> client, basePath |-> basePath]

\* new OpenFilesTools(client, basePath)
OpenFilesTools(client, basePath) ==
    LET scoped == IF basePath # <<>>
                  THEN OpenFilesClient_withBasePath(client, basePath)
                  ELSE client
    IN  [client   |-> scoped,
         basePath |-> basePath,
         openai    |-> OpenAIProvider(scoped, getEffectiveBasePath(client, basePath)),
         anthropic |-> AnthropicProvider(scoped, getEffectiveBasePath(client, basePath))]

\* OpenFilesTools.withBasePath
OpenFilesTools_withBasePath(tools, basePath) ==
    LET effectiveClient   == OpenFilesClient_withBasePath(tools.client, basePath)
        effectiveBasePath == IF tools.basePath # <<>>
                             THEN tools.basePath \o <<"/">> \o basePath
                             ELSE basePath
    IN  OpenFilesTools(effectiveClient, effectiveBasePath)

\* slice(basePath.length): the separator stays
StripPrefixKeepingSlash(basePath, path) ==
    IF StartsWith(path, basePath \o <<"/">>)
    THEN SubSeq(path, Len(basePath) + 1, Len(path))
    ELSE path

\* the part of a path stripBasePath keeps
StripPrefix(basePath, path) ==
    IF StartsWith(path, basePath \o <<"/">>)
    THEN SubSeq(path, Len(basePath) + 2, Len(path))
    ELSE path

\* a stripBasePath that leaves the records of files and versions alone
stripBasePathRecordOnly(basePath, result) ==
    IF basePath = <<>> THEN result
    ELSE CASE result.kind = "metadata" ->
                [result EXCEPT !.path = StripPrefix(basePath, @)]
           [] OTHER -> result

\* OpenAIProvider.stripBasePath
stripBasePath(basePath, result) ==
    IF basePath = <<>> THEN result
    ELSE CASE result.kind = "metadata" ->
                [result EXCEPT !.path = StripPrefix(basePath, @)]
           [] result.kind = "files" ->
                [result EXCEPT !.files =
                    {[f EXCEPT !.path = StripPrefix(basePath, @)] : f \in @}]
           [] result.kind = "versions" ->
                [result EXCEPT !.versions =
                    {[v EXCEPT !.path = StripPrefix(basePath, @)] : v \in @}]
           [] OTHER -> result

\* a dispatch that sends overwrite_file to writeFile
ToolOperationOverwriteAsWrite(name) ==
    CASE name = "write_file"        -> "writeFile"
      [] name = "read_file"         -> "readFile"
      [] name = "edit_file"         -> "editFile"
      [] name = "list_files"        -> "listFiles"
      [] name = "append_to_file"    -> "appendToFile"
      [] name = "overwrite_file"    -> "writeFile"
      [] name = "get_file_metadata" -> "getFileMetadata"
      [] name = "get_file_versions" -> "getFileVersions"

\* the client operation a tool name is dispatched to by executeTool
ToolOperation(name) ==
    CASE name = "write_file"        -> "writeFile"
      [] name = "read_file"         -> "readFile"
      [] name = "edit_file"         -> "editFile"
      [] name = "list_files"        -> "listFiles"
      [] name = "append_to_file"    -> "appendToFile"
      [] name = "overwrite_file"    -> "overwriteFile"
      [] name = "get_file_metadata" -> "getFileMetadata"
      [] name = "get_file_versions" -> "getFileVersions"

\* a version argument forwarded as it is
ExplicitVersionKeepingZero(version) == version

\* args.version === 0 ? undefined : args.version
ExplicitVersion(version) == IF version = 0 THEN NoVersion ELSE version

\* params that hand the basePath of the arguments to the client operation
ToolParamsWithBasePath(name, args) ==
    [basePath    |-> args.basePath,
     path        |-> IF name = "list_files" THEN args.directory ELSE args.path,
     content     |-> IF name \in {"write_file", "append_to_file", "overwrite_file"}
                     THEN args.content ELSE <<>>,
     oldString   |-> IF name = "edit_file" THEN args.oldString ELSE <<>>,
     newString   |-> IF name = "edit_file" THEN args.newString ELSE <<>>,
     version     |-> IF name \in {"read_file", "get_file_metadata"}
                     THEN ExplicitVersion(args.version) ELSE NoVersion,
     contentType |-> IF name = "write_file" THEN args.contentType ELSE Unset,
     isBase64    |-> IF name = "overwrite_file" THEN args.isBase64 ELSE Unset,
     recursive   |-> IF name = "list_files" THEN args.recursive ELSE Unset,
     limit       |-> IF name \in {"list_files", "get_file_versions"} THEN args.limit
                     ELSE NoLimit,
     offset      |-> IF name = "get_file_versions" THEN args.offset ELSE NoOffset]

\* the params executeTool passes to the client operation; args is
\* [path, directory, content, oldString, newString, version, basePath,
\* contentType, isBase64, recursive, limit, offset], an absent argument being
\* NoVersion, NoLimit, NoOffset, Unset or the empty string
ToolParams(name, args) ==
    [basePath    |-> <<>>,
     path        |-> IF name = "list_files" THEN args.directory ELSE args.path,
     content     |-> IF name \in {"write_file", "append_to_file", "overwrite_file"}
                     THEN args.content ELSE <<>>,
     oldString   |-> IF name = "edit_file" THEN args.oldString ELSE <<>>,
     newString   |-> IF name = "edit_file" THEN args.newString ELSE <<>>,
     version     |-> IF name \in {"read_file", "get_file_metadata"}
                     THEN ExplicitVersion(args.version) ELSE NoVersion,
     contentType |-> IF name = "write_file" THEN args.contentType ELSE Unset,
     isBase64    |-> IF name = "overwrite_file" THEN args.isBase64 ELSE Unset,
     recursive   |-> IF name = "list_files" THEN args.recursive ELSE Unset,
     limit       |-> IF name \in {"list_files", "get_file_versions"} THEN args.limit
                     ELSE NoLimit,
     offset      |-> IF name = "get_file_versions" THEN args.offset ELSE NoOffset]

\* the request executeTool makes the client send for a tool call
ToolRequest(provider, toolCall) ==
    ClientRequest(provider.client, ToolOperation(toolCall.name),
                  ToolParams(toolCall.name, toolCall.args))

\* what executeTool returns or throws once the client operation has settled
executeTool(provider, toolCall, outcome) ==
    LET settled == ClientSettle(ToolOperation(toolCall.name), outcome)
    IN  IF ~ isOpenFilesTool(toolCall.name)
        THEN [ok |-> FALSE, message |-> "Unknown tool"]
        ELSE IF ~ settled.ok THEN settled
        ELSE IF toolCall.name = "read_file" THEN settled
        ELSE [ok |-> TRUE, value |-> stripBasePath(provider.basePath, settled.value)]

\* a ToolResult whose error case keeps a data field
ToolResultKeepingData(toolCall, executed) ==
    IF executed.ok
    THEN [toolCallId |-> toolCall.id, status |-> "success", data |-> executed.value,
          function |-> toolCall.name, args |-> toolCall.args]
    ELSE [toolCallId |-> toolCall.id, status |-> "error", error |-> executed.message,
          data |-> toolCall.args, function |-> toolCall.name, args |-> toolCall.args]

\* the ToolResult processToolCalls pushes for a settled tool call
ToolResult(toolCall, executed) ==
    IF executed.ok
    THEN [toolCallId |-> toolCall.id, status |-> "success", data |-> executed.value,
          function |-> toolCall.name, args |-> toolCall.args]
    ELSE [toolCallId |-> toolCall.id, status |-> "error", error |-> executed.message,
          function |-> toolCall.name, args |-> toolCall.args]

\* the tool message processToolCalls pushes for a settled tool call
ProviderToolMessage(toolCall, executed) ==
    IF executed.ok
    THEN [role |-> "tool", tool_call_id |-> toolCall.id,
          content |-> [success |-> TRUE, data |-> executed.value,
                       operation |-> toolCall.name]]
    ELSE [role |-> "tool", tool_call_id |-> toolCall.id,
          content |-> [success |-> FALSE,
                       error |-> [code |-> "EXECUTION_ERROR", message |-> executed.message],
                       operation |-> toolCall.name]]

\* the { id, name, input } processToolCalls hands to executeTool for a block
AnthropicToolCall(item) == [id |-> item.id, name |-> item.name, args |-> item.input]

\* the request AnthropicProvider.executeTool makes the client send
AnthropicToolRequest(provider, item) ==
    ClientRequest(provider.client, ToolOperation(item.name),
                  ToolParams(item.name, item.input))

\* what AnthropicProvider.executeTool returns or throws once the client
\* operation has settled
AnthropicExecuteTool(provider, item, outcome) ==
    LET settled == ClientSettle(ToolOperation(item.name), outcome)
    IN  IF ~ isOpenFilesTool(item.name)
        THEN [ok |-> FALSE, message |-> "Unknown tool"]
        ELSE IF ~ settled.ok THEN settled
        ELSE IF item.name = "read_file" THEN settled
        ELSE [ok |-> TRUE, value |-> stripBasePath(provider.basePath, settled.value)]

\* the ToolResult AnthropicProvider.processToolCalls pushes for a block
AnthropicResult(item, executed) ==
    IF executed.ok
    THEN [toolCallId |-> item.id, status |-> "success", data |-> executed.value,
          function |-> item.name, args |-> item.input]
    ELSE [toolCallId |-> item.id, status |-> "error", error |-> executed.message,
          function |-> item.name, args |-> item.input]

\* the tool_result block AnthropicProvider.processToolCalls pushes for a block
AnthropicToolResult(item, executed) ==
    IF executed.ok
    THEN [type |-> "tool_result", tool_use_id |-> item.id,
          content |-> [success |-> TRUE, data |-> executed.value,
                       operation |-> item.name]]
    ELSE [type |-> "tool_result", tool_use_id |-> item.id,
          content |-> [success |-> FALSE,
                       error |-> [code |-> "EXECUTION_ERROR", message |-> executed.message],
                       operation |-> item.name]]

\* one user message for each tool_result block
AnthropicToolMessagesPerResult(blocks) ==
    [k \in 1..Len(blocks) |-> [role |-> "user", content |-> <<blocks[k]>>]]

\* the toolMessages AnthropicProvider.processToolCalls returns
AnthropicToolMessages(blocks) ==
    IF Len(blocks) > 0 THEN << [role |-> "user", content |-> blocks] >> ELSE <<>>

\* a tool schema: its name, the type of each of its properties and its
\* required list
Schema(name, properties, required) ==
    [name |-> name, properties |-> properties, required |-> required]

\* definitions that ask the model for a base path
OpenAIProvider_definitionsWithBasePath ==
    << Schema("write_file",
              [path |-> "string", content |-> "string", contentType |-> "string", basePath |-> "string"],
              <<"path", "content", "contentType">>),
       Schema("read_file",
              [path |-> "string", version |-> "number"],
              <<"path", "version">>),
       Schema("edit_file",
              [path |-> "string", oldString |-> "string", newString |-> "string"],
              <<"path", "oldString", "newString">>),
       Schema("list_files",
              [directory |-> "string", recursive |-> "boolean", limit |-> "number"],
              <<"directory", "recursive", "limit">>),
       Schema("append_to_file",
              [path |-> "string", content |-> "string"],
              <<"path", "content">>),
       Schema("overwrite_file",
              [path |-> "string", content |-> "string", isBase64 |-> "boolean"],
              <<"path", "content", "isBase64">>),
       Schema("get_file_metadata",
              [path |-> "string", version |-> "number"],
              <<"path", "version">>),
       Schema("get_file_versions",
              [path |-> "string", limit |-> "number", offset |-> "number"],
              <<"path", "limit", "offset">>) >>

\* OpenAIProvider.definitions: name, properties with their types, required
OpenAIProvider_definitions ==
    << Schema("write_file",
              [path |-> "string", content |-> "string", contentType |-> "string"],
              <<"path", "content", "contentType">>),
       Schema("read_file",
              [path |-> "string", version |-> "number"],
              <<"path", "version">>),
       Schema("edit_file",
              [path |-> "string", oldString |-> "string", newString |-> "string"],
              <<"path", "oldString", "newString">>),
       Schema("list_files",
              [directory |-> "string", recursive |-> "boolean", limit |-> "number"],
              <<"directory", "recursive", "limit">>),
       Schema("append_to_file",
              [path |-> "string", content |-> "string"],
              <<"path", "content">>),
       Schema("overwrite_file",
              [path |-> "string", content |-> "string", isBase64 |-> "boolean"],
              <<"path", "content", "isBase64">>),
       Schema("get_file_metadata",
              [path |-> "string", version |-> "number"],
              <<"path", "version">>),
       Schema("get_file_versions",
              [path |-> "string", limit |-> "number", offset |-> "number"],
              <<"path", "limit", "offset">>) >>

\* definitions whose version parameters are integers
AnthropicProvider_definitionsIntegerVersion ==
    << Schema("write_file",
              [path |-> "string", content |-> "string", contentType |-> "string"],
              <<"path", "content", "contentType">>),
       Schema("read_file",
              [path |-> "string", version |-> "integer"],
              <<"path", "version">>),
       Schema("edit_file",
              [path |-> "string", oldString |-> "string", newString |-> "string"],
              <<"path", "oldString", "newString">>),
       Schema("list_files",
              [directory |-> "string", recursive |-> "boolean", limit |-> "number"],
              <<"directory", "recursive", "limit">>),
       Schema("append_to_file",
              [path |-> "string", content |-> "string"],
              <<"path", "content">>),
       Schema("overwrite_file",
              [path |-> "string", content |-> "string", isBase64 |-> "boolean"],
              <<"path", "content", "isBase64">>),
       Schema("get_file_metadata",
              [path |-> "string", version |-> "integer"],
              <<"path", "version">>),
       Schema("get_file_versions",
              [path |-> "string", limit |-> "number", offset |-> "number"],
              <<"path", "limit", "offset">>) >>

\* AnthropicProvider.definitions: name, properties of input_schema with their
\* types, required
AnthropicProvider_definitions ==
    << Schema("write_file",
              [path |-> "string", content |-> "string", contentType |-> "string"],
              <<"path", "content", "contentType">>),
       Schema("read_file",
              [path |-> "string", version |-> "number"],
              <<"path", "version">>),
       Schema("edit_file",
              [path |-> "string", oldString |-> "string", newString |-> "string"],
              <<"path", "oldString", "newString">>),
       Schema("list_files",
              [directory |-> "string", recursive |-> "boolean", limit |-> "number"],
              <<"directory", "recursive", "limit">>),
       Schema("append_to_file",
              [path |-> "string", content |-> "string"],
              <<"path", "content">>),
       Schema("overwrite_file",
              [path |-> "string", content |-> "string", isBase64 |-> "boolean"],
              <<"path", "content", "isBase64">>),
       Schema("get_file_metadata",
              [path |-> "string", version |-> "number"],
              <<"path", "version">>),
       Schema("get_file_versions",
              [path |-> "string", limit |-> "number", offset |-> "number"],
              <<"path", "limit", "offset">>) >>

\* the tool calls of a response, choice by choice
RECURSIVE ToolCalls(_)
ToolCalls(choices) ==
    IF choices = <<>> THEN <<>>
    ELSE Head(choices).tool_calls \o ToolCalls(Tail(choices))

\* ------------------------------------------------------ openai/client.ts

\* new OpenAI(config): the fields file operations depend on
OpenAI(basePath) ==
    [basePath      |-> basePath,
     toolsInstance |-> OpenFilesTools(OpenFilesClient(basePath, <<>>), <<>>)]

\* withBasePath that replaces the base path
OpenAI_withBasePathReplacing(ai, basePath) == OpenAI(basePath)

\* OpenAI.withBasePath
OpenAI_withBasePath(ai, basePath) ==
    OpenAI(IF ai.basePath # <<>>
           THEN StripTrailingSlashes(CollapseSlashes(ai.basePath \o <<"/">> \o basePath))
           ELSE basePath)

\* enhancedParams with the caller's tools first and the caller's
\* parallel_tool_calls
EnhancedParamsCallerFirst(params) ==
    [params EXCEPT !.tools = @ \o OpenAIProvider_definitions]

\* enhancedParams of enhancedCreate
EnhancedParams(params) ==
    [params EXCEPT !.parallel_tool_calls = "false",
                   !.tools = OpenAIProvider_definitions \o @]

\* a continuation request that leaves out the assistant message
ContinuationParamsWithoutAssistant(params, response, toolMessages) ==
    [params EXCEPT !.messages = @ \o toolMessages]

\* the continuation request of enhancedCreate
ContinuationParams(params, response, toolMessages) ==
    [params EXCEPT !.messages =
        @ \o <<[role |-> "assistant", tool_calls |-> response.choices[1].tool_calls]>>
          \o toolMessages]

\* getOperationMessage
getOperationMessage(operation, args, result) ==
    LET getPath  == IF result.kind = "metadata" THEN result.path ELSE <<>>
        fileName == IF args.path # <<>> THEN args.path
                    ELSE IF getPath # <<>> THEN getPath ELSE <<"f", "i", "l", "e">>
    IN  CASE operation = "write_file" ->
                [text |-> "Created file", fileName |-> fileName,
                 count |-> IF result.kind = "metadata" THEN result.size ELSE 0]
          [] operation = "overwrite_file" ->
                [text |-> "Overwrote file", fileName |-> fileName,
                 count |-> IF result.kind = "metadata" THEN result.size ELSE 0]
          [] operation = "read_file" ->
                [text |-> "Read content from", fileName |-> fileName,
                 count |-> IF result.kind = "content" THEN Len(result.content) ELSE 0]
          [] operation = "list_files" ->
                [text |-> "Listed files in directory",
                 count |-> IF result.kind = "files" THEN Cardinality(result.files) ELSE 0]
          [] operation = "get_file_versions" ->
                [text |-> "Retrieved versions for", fileName |-> fileName,
                 count |-> IF result.kind = "versions" THEN Cardinality(result.versions) ELSE 0]
          [] operation = "edit_file" ->
                [text |-> "Updated file with string replacement", fileName |-> fileName]
          [] operation = "append_to_file" ->
                [text |-> "Added content to", fileName |-> fileName]
          [] operation = "get_file_metadata" ->
                [text |-> "Retrieved metadata for", fileName |-> fileName]

\* the tool message executeTools pushes for a ToolResult
ToolMessage(result) ==
    IF result.status = "success"
    THEN [role |-> "tool", tool_call_id |-> result.toolCallId,
          content |-> [success |-> TRUE, data |-> result.data,
                       operation |-> result.function,
                       message |-> getOperationMessage(result.function, result.args,
                                                       result.data)]]
    ELSE [role |-> "tool", tool_call_id |-> result.toolCallId,
          content |-> [success |-> FALSE,
                       error |-> [code |-> "EXECUTION_ERROR", message |-> result.error],
                       operation |-> result.function]]

\* result.function.replaceAll('_', ' ')
ActionName(function) ==
    CASE function = "write_file"        -> "write file"
      [] function = "read_file"         -> "read file"
      [] function = "edit_file"         -> "edit file"
      [] function = "list_files"        -> "list files"
      [] function = "append_to_file"    -> "append to file"
      [] function = "overwrite_file"    -> "overwrite file"
      [] function = "get_file_metadata" -> "get file metadata"
      [] function = "get_file_versions" -> "get file versions"

\* the observer events executeTools emits for a ToolResult
ToolEvents(result) ==
    IF result.status = "success"
    THEN << [observer |-> "onFileOperation", action |-> ActionName(result.function),
             path |-> IF result.function = "list_files"
                      THEN [directory |-> IF result.args.directory # <<>>
                                          THEN result.args.directory ELSE <<"/">>,
                            files |-> Cardinality(result.data.files)]
                      ELSE [path |-> IF result.data.kind = "metadata"
                                        /\ result.data.path # <<>>
                                     THEN result.data.path ELSE result.args.path],
             version |-> IF result.data.kind = "metadata"
                         THEN result.data.version ELSE NoVersion,
             success |-> TRUE],
            [observer |-> "onToolExecution", toolCallId |-> result.toolCallId,
             function |-> result.function, success |-> TRUE] >>
    ELSE << [observer |-> "onError", message |-> result.error],
            [observer |-> "onToolExecution", toolCallId |-> result.toolCallId,
             function |-> result.function, success |-> FALSE] >>

RECURSIVE ToolMessages(_)
ToolMessages(results) ==
    IF results = <<>> THEN <<>>
    ELSE <<ToolMessage(Head(results))>> \o ToolMessages(Tail(results))

RECURSIVE AllToolEvents(_)
AllToolEvents(results) ==
    IF results = <<>> THEN <<>>
    ELSE ToolEvents(Head(results)) \o AllToolEvents(Tail(results))

\* config.onX?.(event): the calls the loop of executeTools makes to the
\* callbacks of config, each "absent", "quiet" or "throws", up to the first
\* call that throws
RECURSIVE Notify(_, _)
Notify(config, evs) ==
    IF evs = <<>> THEN [events |-> <<>>, threw |-> FALSE]
    ELSE LET callback == config[Head(evs).observer]
             rest     == Notify(config, Tail(evs))
         IN  CASE callback = "absent" -> rest
               [] callback = "throws" -> [events |-> <<Head(evs)>>, threw |-> TRUE]
               [] OTHER -> [events |-> <<Head(evs)>> \o rest.events,
                            threw |-> rest.threw]

\* ------------------------------------------------- reference path algebra
\* The slash-separated, non-empty segments of a path, and the path they spell.

RECURSIVE Segments(_)
Segments(p) ==
    IF p = <<>> THEN <<>>
    ELSE IF Head(p) = "/" THEN Segments(Tail(p))
    ELSE LET n == CHOOSE k \in 1..Len(p) :
                    /\ \A i \in 1..k : p[i] # "/"
                    /\ (k = Len(p) \/ p[k + 1] = "/")
         IN  <<SubSeq(p, 1, n)>> \o Segments(SubSeq(p, n + 1, Len(p)))

RECURSIVE Spell(_)
Spell(segs) ==
    IF segs = <<>> THEN <<>>
    ELSE IF Len(segs) = 1 THEN segs[1]
    ELSE segs[1] \o <<"/">> \o Spell(Tail(segs))

RECURSIVE AllSegments(_)
AllSegments(paths) ==
    IF paths = <<>> THEN <<>>
    ELSE Segments(Head(paths)) \o AllSegments(Tail(paths))

\* join(p1, ..., pn) of the specification
JoinAll(paths) == Spell(AllSegments(paths))

\* ------------------------------------------------------------ inputs

BaseInputs == { <<>>, <<"a">>, <<"/", "a">>, <<"b", "/">>, <<"/">> }
SegmentInputs == { <<>>, <<"a">>, <<"b", "/">>, <<"/", "/", "c">>, <<"/">> }
OperationBaseInputs == { <<>>, <<"o">>, <<"o", "/", "/", "p">> }
RelativeInputs == { <<>>, <<"/">>, <<"f">>, <<"/", "d", "/", "/", "f">>,
                    <<".", ".", "/", "f">>, <<"d", "/">> }

\* base paths and segments of the tools views and of the wrappers
ViewBaseInputs == { <<>>, <<"p">>, <<"/", "q", "/">> }
ViewSegmentInputs == { <<>>, <<"s">>, <<"t", "/">> }

NoArgs == [path |-> <<>>, directory |-> <<>>, content |-> <<>>,
           oldString |-> <<>>, newString |-> <<>>, version |-> NoVersion,
           basePath |-> <<>>, contentType |-> Unset, isBase64 |-> Unset,
           recursive |-> Unset, limit |-> NoLimit, offset |-> NoOffset]

\* arguments in which the model supplies a basePath of its own
WithBasePath(call) == [call EXCEPT !.args.basePath = <<"x">>]

\* a tool call of a response, before the response numbers it
Call(name, json, args) == [type |-> "function", name |-> name, json |-> json, args |-> args]

F == <<"f">>
Hi == <<"h", "i">>

\* the tool calls the responses given to create are made of
CreateCallInputs ==
    { Call("write_file", TRUE, [NoArgs EXCEPT !.path = F, !.content = Hi]),
      Call("write_file", TRUE, [NoArgs EXCEPT !.path = F]),
      Call("read_file", TRUE, [NoArgs EXCEPT !.path = F, !.version = 0]),
      Call("read_file", FALSE, NoArgs),
      Call("list_files", TRUE, NoArgs),
      Call("list_files", TRUE, [NoArgs EXCEPT !.directory = <<"d", "/">>]),
      Call("get_weather", TRUE, NoArgs) }

\* the tool calls the responses given to processToolCalls are made of
SequenceCallInputs ==
    { Call("write_file", TRUE, [NoArgs EXCEPT !.path = F, !.content = Hi]),
      Call("read_file", TRUE, [NoArgs EXCEPT !.path = F, !.version = 0]),
      Call("append_to_file", TRUE, [NoArgs EXCEPT !.path = F, !.content = Hi]),
      Call("list_files", TRUE, [NoArgs EXCEPT !.directory = <<"/">>]),
      Call("get_weather", TRUE, NoArgs) }

SingleCallInputs ==
    { Call("write_file", TRUE, [NoArgs EXCEPT !.path = <<".", ".", "/", "f">>, !.content = Hi]),
      Call("write_file", TRUE, [NoArgs EXCEPT !.path = <<"/", "d", "/", "/", "f">>,
                                              !.contentType = "text/markdown"]),
      Call("write_file", FALSE, NoArgs),
      Call("edit_file", TRUE, [NoArgs EXCEPT !.path = F, !.oldString = <<"h">>,
                                             !.newString = <<"o", "h">>]),
      Call("overwrite_file", TRUE, [NoArgs EXCEPT !.path = F, !.content = <<"x">>,
                                                  !.isBase64 = "false"]),
      Call("get_file_metadata", TRUE, [NoArgs EXCEPT !.path = F, !.version = 1]),
      Call("get_file_metadata", TRUE, [NoArgs EXCEPT !.path = F, !.version = 0]),
      Call("read_file", TRUE, [NoArgs EXCEPT !.path = F, !.version = 1]),
      Call("get_file_versions", TRUE, [NoArgs EXCEPT !.path = F, !.limit = 5,
                                                     !.offset = 1]),
      Call("list_files", TRUE, [NoArgs EXCEPT !.recursive = "false", !.limit = 0]),
      [Call("write_file", TRUE, [NoArgs EXCEPT !.path = F]) EXCEPT !.type = "custom"],
      [name |-> "write_file", json |-> TRUE,
       args |-> [NoArgs EXCEPT !.path = F, !.content = Hi]],
      Call(NotAString, TRUE, NoArgs),
      [type |-> "function"],
      [type |-> "custom"] }

\* one call of every catalog operation with a basePath among its arguments
BasePathCallInputs ==
    { WithBasePath(c) :
        c \in { Call("write_file", TRUE, [NoArgs EXCEPT !.path = F, !.content = Hi]),
                Call("read_file", TRUE, [NoArgs EXCEPT !.path = F, !.version = 0]),
                Call("edit_file", TRUE, [NoArgs EXCEPT !.path = F, !.oldString = <<"h">>,
                                                       !.newString = <<"o", "h">>]),
                Call("list_files", TRUE, [NoArgs EXCEPT !.directory = <<"d">>]),
                Call("append_to_file", TRUE, [NoArgs EXCEPT !.path = F, !.content = Hi]),
                Call("overwrite_file", TRUE, [NoArgs EXCEPT !.path = F, !.content = <<"x">>]),
                Call("get_file_metadata", TRUE, [NoArgs EXCEPT !.path = F, !.version = 1]),
                Call("get_file_versions", TRUE, [NoArgs EXCEPT !.path = F]) } }

SeqsUpTo(S, n) == UNION {[1..k -> S] : k \in 0..n}

\* the tool calls as the response carries them: numbered from `from`
Numbered(calls, from) ==
    [i \in 1..Len(calls) |->
        [id |-> from + i - 1] @@ calls[i]]

Completion(calls) ==
    [kind |-> "completion", choices |-> << [tool_calls |-> Numbered(calls, 1)] >>]

\* a completion with a second choice
Completion2(calls, more) ==
    [kind |-> "completion",
     choices |-> << [tool_calls |-> Numbered(calls, 1)],
                    [tool_calls |-> Numbered(more, Len(calls) + 1)] >>]

NoChoices == [kind |-> "completion", choices |-> <<>>]
Stream == [kind |-> "stream"]

CreateResponses ==
    {Completion(calls) : calls \in SeqsUpTo(CreateCallInputs, MaxCalls)}
    \cup {Completion2(<<c>>, <<d>>) :
            c \in {x \in CreateCallInputs : x.name = "get_weather"},
            d \in {x \in CreateCallInputs : x.name = "write_file"}}
    \cup {NoChoices}

ToolsResponses ==
    {Completion(calls) : calls \in SeqsUpTo(SequenceCallInputs, MaxCalls)}
    \cup {Completion(<<c>>) : c \in SingleCallInputs}
    \cup {Completion(<<c, d>>) :
            c \in {x \in SequenceCallInputs : x.name = "write_file"},
            d \in {x \in {y \in SingleCallInputs : isFunctionToolCall(y)} :
                     x.name \in {"edit_file", "overwrite_file", "get_file_metadata",
                                 "get_file_versions", "read_file"} /\ x.json}}
    \cup {Completion(<<c>>) : c \in BasePathCallInputs}
    \cup {Completion(<< Call("write_file", TRUE,
                             [NoArgs EXCEPT !.path = F, !.content = <<"p", "/", "x">>]),
                        Call("read_file", TRUE, [NoArgs EXCEPT !.path = F]) >>)}
    \cup {Completion(<<c, d>>) :
            c \in {x \in SequenceCallInputs : x.name = "write_file"},
            d \in BasePathCallInputs}

\* a content block of an Anthropic response, before the response numbers it
ToolUse(name, input) == [type |-> "tool_use", name |-> name, input |-> input]
Text == [type |-> "text", name |-> "", input |-> NoArgs]

BlockInputs ==
    { ToolUse("write_file", [NoArgs EXCEPT !.path = F, !.content = Hi]),
      ToolUse("read_file", [NoArgs EXCEPT !.path = F, !.version = 0]),
      ToolUse("list_files", [NoArgs EXCEPT !.directory = <<"d">>]),
      ToolUse("get_weather", NoArgs),
      Text }

\* the content of an Anthropic response: its blocks with their ids
Message(blocks) ==
    [kind |-> "message",
     content |-> [i \in 1..Len(blocks) |->
                     [id |-> i, type |-> blocks[i].type, name |-> blocks[i].name,
                      input |-> blocks[i].input]]]

AnthropicResponses == {Message(blocks) : blocks \in SeqsUpTo(BlockInputs, MaxCalls + 1)}

\* the callbacks of the wrapper's config
NoObservers == [onFileOperation |-> "absent", onToolExecution |-> "absent",
                onError |-> "absent"]
AllObservers == [onFileOperation |-> "quiet", onToolExecution |-> "quiet",
                 onError |-> "quiet"]
ObserverInputs ==
    { NoObservers, AllObservers,
      [AllObservers EXCEPT !.onToolExecution = "throws"] }

ParamsInputs ==
    { [messages |-> <<[role |-> "user"]>>, tools |-> <<>>, parallel_tool_calls |-> "unset"],
      [messages |-> <<[role |-> "user"]>>,
       tools |-> << Schema("get_weather", [city |-> "string"], <<"city">>),
                    Schema("deploy", [basePath |-> "string"], <<"basePath">>) >>,
       parallel_tool_calls |-> "true"] }

\* ------------------------------------------------------------- state

VARIABLES
    cl,          \* the OpenFilesClient under direct use
    clSegs,      \* the withBasePath arguments that derived cl from the root client
    lastReq,     \* the request the last operation on cl sent to the backend
    ai,          \* the OpenAI wrapper under use
    aiRoot,      \* the wrapper ai was derived from
    aiSegs,      \* the withBasePath arguments that derived ai from aiRoot
    observers,   \* the callbacks of the config of ai
    tv,          \* the OpenFilesTools view under use
    tvRoot,      \* the tools view tv was derived from
    tvSegs,      \* the withBasePath arguments that derived tv from tvRoot
    entry,       \* "create" | "executeTools" | "processToolCalls" | ... | "none": the call in progress
    pc,          \* "idle" | "model" | "tools" | "backend" | "resuming" | "done"
    params,      \* the caller's params of create
    response,    \* the model response whose tool calls are processed
    idx,         \* position of processToolCalls in the tool calls of response
    handled,     \* `handled` of processToolCalls
    inflight,    \* the backend requests sent and not yet settled
    files,       \* the files the backend stores
    backendLog,  \* the backend invocations, in the order they were sent
    results,     \* `results` of processToolCalls
    toolMessages,\* `toolMessages` of processToolCalls
    modelLog,    \* the requests create sent to the model
    events,      \* the observer events emitted
    outcome,     \* what the call in progress returned or threw
    views,       \* the client, tools and wrapper instances allocated, in order
    derived,     \* the receiver and the result of the last withBasePath call
    sent,        \* the last operation on an instance of views and its path
    applied,     \* the function of utils/path.ts applied, its arguments and result
    toolResults, \* `toolResults` of AnthropicProvider.processToolCalls
    answer       \* what the backend call of the client operation in progress settled to

clientVars == <<cl, clSegs, lastReq>>
viewVars == <<ai, aiRoot, aiSegs, observers, tv, tvRoot, tvSegs>>
runVars == <<entry, pc, params, response, idx, handled, inflight, files, backendLog,
             results, toolMessages, modelLog, events, outcome>>
heapVars == <<views, derived, sent>>
pathVars == <<applied>>
blockVars == <<toolResults>>
settleVars == <<answer>>
otherVars == <<heapVars, pathVars, blockVars, settleVars>>
vars == <<clientVars, viewVars, runVars, otherVars>>

NoReq == [op |-> "none"]
NoOutcome == [kind |-> "none"]
NoResponse == [kind |-> "none"]
NoParams == [messages |-> <<>>, tools |-> <<>>, parallel_tool_calls |-> "unset"]

InitClientVars ==
    /\ cl = OpenFilesClient(<<>>, <<>>)
    /\ clSegs = <<>>
    /\ lastReq = NoReq

InitAi ==
    /\ ai = OpenAI(<<>>)
    /\ aiRoot = ai
    /\ aiSegs = <<>>
    /\ observers = NoObservers

InitTv ==
    /\ tv = OpenFilesTools(OpenFilesClient(<<>>, <<>>), <<>>)
    /\ tvRoot = tv
    /\ tvSegs = <<>>

InitViewVars == InitAi /\ InitTv

NoDerived == [receiver |-> 0, returned |-> 0, allocated |-> 0]
NoSent == [view |-> 0]

NoApplied == [fn |-> "none"]
NoAnswer == [kind |-> "none"]

InitHeapVars ==
    /\ views = <<>>
    /\ derived = NoDerived
    /\ sent = NoSent
    /\ applied = NoApplied
    /\ toolResults = <<>>
    /\ answer = NoAnswer

InitRunVars ==
    /\ entry = "none"
    /\ pc = "idle"
    /\ params = NoParams
    /\ response = NoResponse
    /\ idx = 0
    /\ handled = FALSE
    /\ inflight = {}
    /\ files = <<>>
    /\ backendLog = <<>>
    /\ results = <<>>
    /\ toolMessages = <<>>
    /\ modelLog = <<>>
    /\ events = <<>>
    /\ outcome = NoOutcome

\* --------------------------------------------- direct use of the client

InitClient ==
    /\ \E c \in BaseInputs : cl = OpenFilesClient(c, <<>>)
    /\ clSegs = <<>>
    /\ lastReq = NoReq
    /\ InitViewVars
    /\ InitHeapVars
    /\ InitRunVars

\* client = client.withBasePath(s); no operation of the new client has run
ClientWithBasePath ==
    /\ Len(clSegs) < MaxDepth
    /\ \E s \in SegmentInputs :
          /\ cl' = OpenFilesClient_withBasePath(cl, s)
          /\ clSegs' = Append(clSegs, s)
    /\ lastReq' = NoReq
    /\ UNCHANGED <<viewVars, otherVars, runVars>>

\* client.<op>({ basePath: o, path | directory: r, ... }) up to its request
ClientOperation ==
    /\ \E op \in ClientOps, o \in OperationBaseInputs, r \in RelativeInputs :
          lastReq' = [op |-> op, basePath |-> o, relative |-> r,
                      path |-> RequestPath(cl, op, o, r)]
    /\ UNCHANGED <<cl, clSegs, viewVars, otherVars, runVars>>

NextClient == ClientWithBasePath \/ ClientOperation

SpecClient == InitClient /\ [][NextClient]_vars

\* ------------------------------------------- one operation of the client

\* the params of the operation: a base path, a path or directory, contents
OperationParamsInputs ==
    { [basePath |-> o, path |-> r, content |-> Hi, oldString |-> <<"h">>,
       newString |-> <<"o">>, version |-> NoVersion, contentType |-> Unset,
       isBase64 |-> Unset, recursive |-> Unset, limit |-> NoLimit,
       offset |-> NoOffset] :
        o \in OperationBaseInputs, r \in RelativeInputs }

\* what the backend call may settle to: the answer of a service that has the
\* file, of one that has not, a refusal, a response without data, a refusal
\* that carries data, a file without content, the content as a string of
\* the old response format, empty or not, a transport failure, and
\* rejections with a value that is no Error
AnswerInputs(req) ==
    { BackendResponse(<<>>, req),
      BackendResponse([p \in {req.path} |-> <<Hi>>], req),
      Failure,
      [kind |-> "response", success |-> TRUE],
      [kind |-> "response", success |-> FALSE, data |-> FileMetadata(req.path, 1, Hi)],
      Success([kind |-> "file", path |-> req.path, version |-> 1, content |-> <<>>]),
      Success([kind |-> "string", value |-> Hi]),
      Success([kind |-> "string", value |-> <<>>]),
      NetworkError,
      Thrown("string", "timeout"),
      Thrown("object", "denied"),
      [kind |-> "throw", thrown |-> "object"],
      [kind |-> "throw", thrown |-> "other"] }

\* client.<op>(params) up to the await of its backend call
OperationCalled ==
    /\ pc = "idle"
    /\ \E op \in ClientOps, params_ \in OperationParamsInputs :
          LET req == ClientRequest(cl, op, params_)
          IN  /\ lastReq' = [op |-> op, basePath |-> params_.basePath,
                             relative |-> params_.path, path |-> req.path]
              /\ inflight' = {req}
              /\ backendLog' = Append(backendLog, req)
    /\ entry' = "operation"
    /\ pc' = "awaiting"
    /\ UNCHANGED <<cl, clSegs, viewVars, otherVars, params, response, idx, handled, files,
                   results, toolMessages, modelLog, events, outcome>>

\* the backend call settles: the operation returns its value or throws
OperationSettles ==
    /\ pc = "awaiting"
    /\ entry = "operation"
    /\ \E req \in inflight : \E a \in AnswerInputs(req) :
          LET settled == ClientSettle(req.op, a)
          IN  /\ answer' = a
              /\ outcome' = IF settled.ok
                            THEN [kind |-> "return", value |-> settled.value]
                            ELSE [kind |-> "throw", message |-> settled.message]
    /\ inflight' = {}
    /\ pc' = "done"
    /\ UNCHANGED <<clientVars, viewVars, heapVars, pathVars, blockVars, entry, params,
                   response, idx, handled, files, backendLog, results, toolMessages,
                   modelLog, events>>

\* client = client.withBasePath(s) before the operation
OperationClientWithBasePath ==
    /\ pc = "idle"
    /\ Len(clSegs) < MaxDepth
    /\ \E s \in SegmentInputs :
          /\ cl' = OpenFilesClient_withBasePath(cl, s)
          /\ clSegs' = Append(clSegs, s)
    /\ UNCHANGED <<lastReq, viewVars, otherVars, runVars>>

NextOperation == OperationClientWithBasePath \/ OperationCalled \/ OperationSettles

SpecOperation == InitClient /\ [][NextOperation]_vars

\* ------------------------------------------------- processToolCalls, create

\* the tools instance whose OpenAI provider processes the response
Provider == IF entry \in {"create", "executeTools"} THEN ai.toolsInstance.openai
            ELSE tv.openai

Calls == IF response.kind = "completion" THEN ToolCalls(response.choices) ELSE <<>>

\* a loop that does not advance past a tool call it skips
SkipToolCallStaying ==
    /\ pc = "tools"
    /\ idx <= Len(Calls)
    /\ ~ (isFunctionToolCall(Calls[idx]) /\ isOpenFilesTool(Calls[idx].name))
    /\ idx' = idx
    /\ UNCHANGED <<clientVars, viewVars, otherVars, entry, pc, params, response, handled, inflight,
                   files, backendLog, results, toolMessages, modelLog, events, outcome>>

\* the loop of processToolCalls passes a tool call that is not a function
\* call or not of the catalog
SkipToolCall ==
    /\ pc = "tools"
    /\ idx <= Len(Calls)
    /\ ~ (isFunctionToolCall(Calls[idx]) /\ isOpenFilesTool(Calls[idx].name))
    /\ idx' = idx + 1
    /\ UNCHANGED <<clientVars, viewVars, otherVars, entry, pc, params, response, handled, inflight,
                   files, backendLog, results, toolMessages, modelLog, events, outcome>>

\* JSON.parse of the arguments throws in the try block and again in the
\* catch block: processToolCalls rejects, and so does create
ArgumentsUnparsable ==
    /\ pc = "tools"
    /\ idx <= Len(Calls)
    /\ isFunctionToolCall(Calls[idx]) /\ isOpenFilesTool(Calls[idx].name)
    /\ ~ Calls[idx].json
    /\ handled' = TRUE
    /\ outcome' = [kind |-> "throw", message |-> "SyntaxError"]
    /\ pc' = "done"
    /\ UNCHANGED <<clientVars, viewVars, otherVars, entry, params, response, idx, inflight, files,
                   backendLog, results, toolMessages, modelLog, events>>

\* the call of the provider's loop that may start its backend invocation
MayStart(i) == pc = "tools" /\ i = idx /\ inflight = {}

\* executeTool up to the await of the backend call
StartToolCall ==
    /\ \E i \in 1..Len(Calls) :
          /\ MayStart(i)
          /\ isFunctionToolCall(Calls[i]) /\ isOpenFilesTool(Calls[i].name)
          /\ Calls[i].json
          /\ \E toolCall \in {Calls[i]}, provider \in {Provider} :
             \E req \in {[call |-> i] @@ ToolRequest(provider, toolCall)} :
                 /\ inflight' = inflight \cup {req}
                 /\ backendLog' = Append(backendLog, req)
    /\ handled' = TRUE
    /\ pc' = "backend"
    /\ UNCHANGED <<clientVars, viewVars, otherVars, entry, params, response, idx, files, results,
                   toolMessages, modelLog, events, outcome>>

\* the backend call settles and the loop pushes the result of the tool call
Settle(req, backendOutcome) ==
    \E toolCall \in {Calls[req.call]} :
    \E executed \in {executeTool(Provider, toolCall, backendOutcome)} :
        /\ results' = Append(results, ToolResult(toolCall, executed))
        /\ toolMessages' = Append(toolMessages, ProviderToolMessage(toolCall, executed))
        /\ inflight' = inflight \ {req}
        /\ answer' = backendOutcome
        /\ idx' = idx + 1
        /\ pc' = "tools"
        /\ UNCHANGED <<clientVars, viewVars, heapVars, pathVars, blockVars, entry, params,
                       response, handled, backendLog, modelLog, events, outcome>>

\* the service answers the request
BackendResponds ==
    /\ pc = "backend"
    /\ \E req \in inflight :
          /\ files' = BackendStore(files, req)
          /\ \E backendOutcome \in {BackendResponse(files, req)} :
                Settle(req, backendOutcome)

\* the request fails in transport
BackendThrows ==
    /\ pc = "backend"
    /\ \E req \in inflight :
          /\ files' = files
          /\ Settle(req, NetworkError)

\* processToolCalls returns
ReturnProcessed ==
    /\ pc = "tools"
    /\ entry = "processToolCalls"
    /\ idx > Len(Calls)
    /\ outcome' = [kind |-> "return",
                   value |-> [handled |-> handled, results |-> results,
                              toolMessages |-> toolMessages]]
    /\ pc' = "done"
    /\ UNCHANGED <<clientVars, viewVars, otherVars, entry, params, response, idx, handled, inflight,
                   files, backendLog, results, toolMessages, modelLog, events>>

\* ------------------------------------- processToolCalls on a tools view

InitTools ==
    /\ InitClientVars
    /\ InitAi
    /\ \E c \in ViewBaseInputs, b \in ViewBaseInputs :
          tv = OpenFilesTools(OpenFilesClient(c, <<>>), b)
    /\ tvRoot = tv
    /\ tvSegs = <<>>
    /\ InitHeapVars
    /\ InitRunVars

\* tools = tools.withBasePath(s)
ToolsWithBasePath ==
    /\ pc = "idle"
    /\ Len(tvSegs) < MaxDepth
    /\ \E s \in ViewSegmentInputs :
          /\ tv' = OpenFilesTools_withBasePath(tv, s)
          /\ tvSegs' = Append(tvSegs, s)
    /\ UNCHANGED <<clientVars, ai, aiRoot, aiSegs, observers, tvRoot, otherVars, runVars>>

\* tools.openai.processToolCalls(response) is called
ProcessToolCalls ==
    /\ pc = "idle"
    /\ \E r \in ToolsResponses : response' = r
    /\ entry' = "processToolCalls"
    /\ idx' = 1
    /\ pc' = "tools"
    /\ UNCHANGED <<clientVars, viewVars, otherVars, params, handled, inflight, files, backendLog,
                   results, toolMessages, modelLog, events, outcome>>

NextTools ==
    \/ ToolsWithBasePath
    \/ ProcessToolCalls
    \/ SkipToolCall
    \/ ArgumentsUnparsable
    \/ StartToolCall
    \/ BackendResponds
    \/ BackendThrows
    \/ ReturnProcessed

SpecTools == InitTools /\ [][NextTools]_vars

\* -------------------------- processToolCalls of both providers of a view

Content == IF response.kind = "message" THEN response.content ELSE <<>>

IsCatalogToolUse(item) == item.type = "tool_use" /\ isOpenFilesTool(item.name)

\* tools.anthropic.processToolCalls(response) is called
AnthropicProcessToolCalls ==
    /\ pc = "idle"
    /\ \E r \in AnthropicResponses : response' = r
    /\ entry' = "anthropic"
    /\ idx' = 1
    /\ pc' = "blocks"
    /\ UNCHANGED <<clientVars, viewVars, otherVars, params, handled, inflight,
                   files, backendLog, results, toolMessages, modelLog, events, outcome>>

\* the loop passes a block that is no tool_use of the catalog
AnthropicSkipBlock ==
    /\ pc = "blocks"
    /\ idx <= Len(Content)
    /\ ~ IsCatalogToolUse(Content[idx])
    /\ idx' = idx + 1
    /\ UNCHANGED <<clientVars, viewVars, otherVars, entry, pc, params, response,
                   handled, inflight, files, backendLog, results, toolMessages, modelLog,
                   events, outcome>>

\* executeTool up to the await of the backend call
AnthropicStartToolUse ==
    /\ pc = "blocks"
    /\ idx <= Len(Content)
    /\ IsCatalogToolUse(Content[idx])
    /\ inflight = {}
    /\ LET req == [call |-> idx] @@ AnthropicToolRequest(tv.anthropic, Content[idx])
       IN  /\ inflight' = inflight \cup {req}
           /\ backendLog' = Append(backendLog, req)
    /\ handled' = TRUE
    /\ pc' = "awaiting"
    /\ UNCHANGED <<clientVars, viewVars, otherVars, entry, params, response,
                   idx, files, results, toolMessages, modelLog, events, outcome>>

\* the backend call settles and the loop pushes the ToolResult and the
\* tool_result block
AnthropicSettle(req, backendOutcome) ==
    LET item     == Content[req.call]
        executed == AnthropicExecuteTool(tv.anthropic, item, backendOutcome)
    IN  /\ results' = Append(results, AnthropicResult(item, executed))
        /\ toolResults' = Append(toolResults, AnthropicToolResult(item, executed))
        /\ inflight' = inflight \ {req}
        /\ answer' = backendOutcome
        /\ idx' = idx + 1
        /\ pc' = "blocks"
        /\ UNCHANGED <<clientVars, viewVars, heapVars, pathVars, entry, params,
                       response, handled, backendLog, toolMessages, modelLog, events,
                       outcome>>

AnthropicBackendResponds ==
    /\ pc = "awaiting"
    /\ \E req \in inflight :
          /\ files' = BackendStore(files, req)
          /\ AnthropicSettle(req, BackendResponse(files, req))

AnthropicBackendThrows ==
    /\ pc = "awaiting"
    /\ \E req \in inflight :
          /\ files' = files
          /\ AnthropicSettle(req, NetworkError)

\* the loop is over: processToolCalls wraps the blocks and returns
AnthropicReturnProcessed ==
    /\ pc = "blocks"
    /\ idx > Len(Content)
    /\ toolMessages' = AnthropicToolMessages(toolResults)
    /\ outcome' = [kind |-> "return",
                   value |-> [handled |-> handled, results |-> results,
                              toolMessages |-> AnthropicToolMessages(toolResults)]]
    /\ pc' = "done"
    /\ UNCHANGED <<clientVars, viewVars, otherVars, entry, params, response,
                   idx, handled, inflight, files, backendLog, results, modelLog, events>>

\* the caller reads tools.openai.definitions and tools.anthropic.definitions
ReadDefinitions ==
    /\ pc = "idle"
    /\ entry' = "definitions"
    /\ outcome' = [kind |-> "return",
                   value |-> [openai    |-> OpenAIProvider_definitions,
                              anthropic |-> AnthropicProvider_definitions]]
    /\ pc' = "done"
    /\ UNCHANGED <<clientVars, viewVars, otherVars, params, response, idx, handled,
                   inflight, files, backendLog, results, toolMessages, modelLog, events>>

NextProviders ==
    \/ ToolsWithBasePath
    \/ ProcessToolCalls
    \/ SkipToolCall
    \/ ArgumentsUnparsable
    \/ StartToolCall
    \/ BackendResponds
    \/ BackendThrows
    \/ ReturnProcessed
    \/ AnthropicProcessToolCalls
    \/ AnthropicSkipBlock
    \/ AnthropicStartToolUse
    \/ AnthropicBackendResponds
    \/ AnthropicBackendThrows
    \/ AnthropicReturnProcessed
    \/ ReadDefinitions

SpecProviders == InitTools /\ [][NextProviders]_vars

\* ------------------------------------------ create of the OpenAI wrapper

\* what the continuation call may resolve to
FinalResponses ==
    { Stream,
      Completion(<<Call("write_file", TRUE, [NoArgs EXCEPT !.path = <<"g">>, !.content = Hi])>>) }

Init ==
    /\ InitClientVars
    /\ \E c \in ViewBaseInputs : ai = OpenAI(c)
    /\ aiRoot = ai
    /\ aiSegs = <<>>
    /\ observers \in ObserverInputs
    /\ InitTv
    /\ InitHeapVars
    /\ InitRunVars

\* ai = ai.withBasePath(s)
AiWithBasePath ==
    /\ pc = "idle"
    /\ Len(aiSegs) < MaxDepth
    /\ \E s \in ViewSegmentInputs :
          /\ ai' = OpenAI_withBasePath(ai, s)
          /\ aiSegs' = Append(aiSegs, s)
    /\ UNCHANGED <<clientVars, aiRoot, observers, tv, tvRoot, tvSegs, otherVars, runVars>>

\* ai.chat.completions.create(params) up to the await of the first model call
Create ==
    /\ pc = "idle"
    /\ \E p \in ParamsInputs :
          /\ params' = p
          /\ modelLog' = <<EnhancedParams(p)>>
    /\ entry' = "create"
    /\ pc' = "model"
    /\ UNCHANGED <<clientVars, viewVars, otherVars, response, idx, handled, inflight, files,
                   backendLog, results, toolMessages, events, outcome>>

\* a model call rejects: create rejects with its error
ModelThrows ==
    /\ pc = "model"
    /\ outcome' = [kind |-> "throw", message |-> "model error"]
    /\ pc' = "done"
    /\ UNCHANGED <<clientVars, viewVars, otherVars, entry, params, response, idx, handled, inflight,
                   files, backendLog, results, toolMessages, modelLog, events>>

\* a stream answered with a second model call
ModelStreamsContinuing ==
    /\ pc = "model"
    /\ Len(modelLog) = 1
    /\ response' = Stream
    /\ modelLog' = Append(modelLog, params)
    /\ UNCHANGED <<clientVars, viewVars, otherVars, entry, pc, params, idx, handled, inflight,
                   files, backendLog, results, toolMessages, events, outcome>>

\* the first model call resolves to a stream: create returns it
ModelStreams ==
    /\ pc = "model"
    /\ Len(modelLog) = 1
    /\ response' = Stream
    /\ outcome' = [kind |-> "return", value |-> response']
    /\ pc' = "done"
    /\ UNCHANGED <<clientVars, viewVars, otherVars, entry, params, idx, handled, inflight,
                   files, backendLog, results, toolMessages, modelLog, events>>

\* the first model call resolves to a completion: executeTools starts
\* processToolCalls on it
ModelCompletes ==
    /\ pc = "model"
    /\ Len(modelLog) = 1
    /\ \E r \in CreateResponses : response' = r
    /\ idx' = 1
    /\ pc' = "tools"
    /\ UNCHANGED <<clientVars, viewVars, otherVars, entry, params, handled, inflight, files,
                   backendLog, results, toolMessages, modelLog, events, outcome>>

\* ai.executeTools(response) is called by the user of the wrapper: it starts
\* processToolCalls on the response, with no model request
ExecuteTools ==
    /\ pc = "idle"
    /\ \E r \in CreateResponses : response' = r
    /\ entry' = "executeTools"
    /\ idx' = 1
    /\ pc' = "tools"
    /\ UNCHANGED <<clientVars, viewVars, otherVars, params, handled, inflight, files,
                   backendLog, results, toolMessages, modelLog, events, outcome>>

\* processToolCalls has returned: the loop of executeTools converts the
\* results and calls the callbacks of config, none of which throws, and
\* executeTools returns its tool messages, to its caller or to the
\* enhancedCreate that awaits it
ExecuteToolsReturns ==
    /\ pc = "tools"
    /\ entry \in {"create", "executeTools"}
    /\ idx > Len(Calls)
    /\ ~ Notify(observers, AllToolEvents(results)).threw
    /\ events' = events \o Notify(observers, AllToolEvents(results)).events
    /\ IF entry = "create"
       THEN /\ pc' = "resuming"
            /\ outcome' = outcome
       ELSE /\ pc' = "done"
            /\ outcome' = [kind |-> "return", value |-> ToolMessages(results)]
    /\ UNCHANGED <<clientVars, viewVars, otherVars, entry, params, response, idx, handled, inflight,
                   files, backendLog, results, toolMessages, modelLog>>

\* processToolCalls has returned: executeTools converts the results, and a
\* callback of config throws out of its loop and of executeTools, and of the
\* create that awaits it
ObserverThrows ==
    /\ pc = "tools"
    /\ entry \in {"create", "executeTools"}
    /\ idx > Len(Calls)
    /\ Notify(observers, AllToolEvents(results)).threw
    /\ events' = events \o Notify(observers, AllToolEvents(results)).events
    /\ outcome' = [kind |-> "throw", message |-> "observer error"]
    /\ pc' = "done"
    /\ UNCHANGED <<clientVars, viewVars, otherVars, entry, params, response, idx, handled, inflight,
                   files, backendLog, results, toolMessages, modelLog>>

\* a continuation built from enhancedParams instead of the caller's params
ContinueWithEnhancedParams ==
    /\ pc = "resuming"
    /\ entry = "create"
    /\ ToolMessages(results) # <<>>
    /\ modelLog' = Append(modelLog,
                          ContinuationParams(EnhancedParams(params), response,
                                             ToolMessages(results)))
    /\ pc' = "model"
    /\ UNCHANGED <<clientVars, viewVars, otherVars, entry, params, response, idx, handled, inflight,
                   files, backendLog, results, toolMessages, events, outcome>>

\* enhancedCreate resumes from `await this.executeTools(...)` with tool
\* messages and sends the continuation request
Continue ==
    /\ pc = "resuming"
    /\ entry = "create"
    /\ ToolMessages(results) # <<>>
    /\ modelLog' = Append(modelLog,
                          ContinuationParams(params, response, ToolMessages(results)))
    /\ pc' = "model"
    /\ UNCHANGED <<clientVars, viewVars, otherVars, entry, params, response, idx, handled, inflight,
                   files, backendLog, results, toolMessages, events, outcome>>

\* enhancedCreate returning a response stripped of its tool calls
ReturnResponseWithoutToolCalls ==
    /\ pc = "resuming"
    /\ entry = "create"
    /\ ToolMessages(results) = <<>>
    /\ outcome' = [kind |-> "return", value |-> NoChoices]
    /\ pc' = "done"
    /\ UNCHANGED <<clientVars, viewVars, otherVars, entry, params, response, idx, handled, inflight,
                   files, backendLog, results, toolMessages, modelLog, events>>

\* enhancedCreate resumes from `await this.executeTools(...)` with no tool
\* message: it returns the response
ReturnResponse ==
    /\ pc = "resuming"
    /\ entry = "create"
    /\ ToolMessages(results) = <<>>
    /\ outcome' = [kind |-> "return", value |-> response]
    /\ pc' = "done"
    /\ UNCHANGED <<clientVars, viewVars, otherVars, entry, params, response, idx, handled, inflight,
                   files, backendLog, results, toolMessages, modelLog, events>>

\* the continuation call resolves to a completion: create returns it
ContinuationCompletes ==
    /\ pc = "model"
    /\ Len(modelLog) = 2
    /\ \E r \in FinalResponses : outcome' = [kind |-> "return", value |-> r]
    /\ pc' = "done"
    /\ UNCHANGED <<clientVars, viewVars, otherVars, entry, params, response, idx, handled, inflight,
                   files, backendLog, results, toolMessages, modelLog, events>>

Next ==
    \/ AiWithBasePath
    \/ Create
    \/ ModelThrows
    \/ ModelStreams
    \/ ModelCompletes
    \/ SkipToolCall
    \/ ArgumentsUnparsable
    \/ StartToolCall
    \/ BackendResponds
    \/ BackendThrows
    \/ ExecuteTools
    \/ ExecuteToolsReturns
    \/ ObserverThrows
    \/ Continue
    \/ ReturnResponse
    \/ ContinuationCompletes

Spec == Init /\ [][Next]_vars

\* an awaited model call completes: it rejects or resolves
ModelCallCompletes ==
    ModelThrows \/ ModelStreams \/ ModelCompletes \/ ContinuationCompletes

\* an awaited backend call completes: it resolves or rejects
BackendCallCompletes == BackendResponds \/ BackendThrows

\* the synchronous code of enhancedCreate, executeTools and processToolCalls
\* between two awaits
WrapperStep ==
    \/ SkipToolCall
    \/ ArgumentsUnparsable
    \/ StartToolCall
    \/ ExecuteToolsReturns
    \/ ObserverThrows
    \/ Continue
    \/ ReturnResponse

\* create under the scheduling of the event loop: a pending model or
\* backend call completes, and the code that awaits it then runs to its
\* next await; the caller is free never to call create, and the wrapper is
\* the one the constructor made, with each of its base paths
NextLive ==
    \/ Create
    \/ ModelCallCompletes
    \/ BackendCallCompletes
    \/ WrapperStep

SpecLive ==
    /\ Init
    /\ [][NextLive]_vars
    /\ WF_vars(ModelCallCompletes)
    /\ WF_vars(BackendCallCompletes)
    /\ WF_vars(WrapperStep)

\* ------------------------------------ instances and their derivations
\* views is the heap of the instances: each holds the fields it has now and
\* the fields its constructor gave it.

Instance(kind, fields, parent) ==
    [kind |-> kind, fields |-> fields, born |-> fields, parent |-> parent]

\* the fields of the instance withBasePath constructs
Derive(kind, fields, basePath) ==
    CASE kind = "client" -> OpenFilesClient_withBasePath(fields, basePath)
      [] kind = "tools"  -> OpenFilesTools_withBasePath(fields, basePath)
      [] kind = "ai"     -> OpenAI_withBasePath(fields, basePath)

\* the client whose operations an instance ends up calling
ClientOf(kind, fields) ==
    CASE kind = "client" -> fields
      [] kind = "tools"  -> fields.openai.client
      [] kind = "ai"     -> fields.toolsInstance.openai.client

\* the path the backend receives when the operation of a tool call is run
\* on an instance
SentPath(kind, fields, toolCall) ==
    ClientRequest(ClientOf(kind, fields), ToolOperation(toolCall.name),
                  ToolParams(toolCall.name, toolCall.args)).path

ViewCallInputs ==
    { Call("write_file", TRUE, [NoArgs EXCEPT !.path = F, !.content = Hi]),
      Call("read_file", TRUE, [NoArgs EXCEPT !.path = <<"/", "d", "/", "/", "f">>]),
      Call("list_files", TRUE, NoArgs),
      Call("list_files", TRUE, [NoArgs EXCEPT !.directory = <<"d", "/">>]) }

InitViews ==
    /\ InitClientVars
    /\ InitViewVars
    /\ InitRunVars
    /\ \E c \in {<<>>, <<"/", "a">>}, t \in {<<>>, <<"p">>}, a \in {<<>>, <<"/", "q", "/">>} :
          views = << Instance("client", OpenFilesClient(c, <<>>), 0),
                     Instance("tools", OpenFilesTools(OpenFilesClient(t, <<>>), <<>>), 0),
                     Instance("ai", OpenAI(a), 0) >>
    /\ derived = NoDerived
    /\ sent = NoSent
    /\ applied = NoApplied
    /\ toolResults = <<>>
    /\ answer = NoAnswer

\* a withBasePath that rewrites its receiver and returns it
ViewWithBasePathInPlace ==
    /\ \E i \in 1..Len(views), s \in ViewSegmentInputs :
          /\ views' = [views EXCEPT
                          ![i].fields = Derive(views[i].kind, views[i].fields, s)]
          /\ derived' = [receiver |-> i, returned |-> i, allocated |-> Len(views)]
    /\ UNCHANGED <<clientVars, viewVars, runVars, sent, applied, blockVars, settleVars>>

\* views[i].withBasePath(s): a new instance is constructed and returned,
\* no field of the receiver is assigned
ViewWithBasePath ==
    /\ Len(views) < 3 + MaxDepth
    /\ \E i \in 1..Len(views), s \in ViewSegmentInputs :
          /\ views' = Append(views,
                  Instance(views[i].kind, Derive(views[i].kind, views[i].fields, s), i))
          /\ derived' = [receiver |-> i, returned |-> Len(views) + 1,
                         allocated |-> Len(views)]
    /\ UNCHANGED <<clientVars, viewVars, runVars, sent, applied, blockVars, settleVars>>

\* an operation is run on views[i] up to its request: no field is assigned
ViewOperation ==
    /\ \E i \in 1..Len(views), c \in ViewCallInputs :
          sent' = [view |-> i, call |-> c,
                   path |-> SentPath(views[i].kind, views[i].fields, c)]
    /\ UNCHANGED <<clientVars, viewVars, runVars, views, derived, applied, blockVars, settleVars>>

NextViews == ViewWithBasePath \/ ViewOperation

SpecViews == InitViews /\ [][NextViews]_vars

\* -------------------------------------------- the functions of utils/path.ts

StringsUpTo(chars, n) == UNION {[1..k -> chars] : k \in 0..n}

PathInputs == StringsUpTo({"/", "a", "b"}, MaxLen + 1)
ResolveBaseInputs == StringsUpTo({"/", "a"}, MaxLen - 1)
ValidityInputs ==
    StringsUpTo({"a", "/", ".", " ", "\t", "\n", "<", ">", ":", "\"", "|", "?", "*"},
                MaxLen)

InitPath ==
    /\ InitClientVars
    /\ InitViewVars
    /\ InitRunVars
    /\ InitHeapVars

ApplyNormalizePath ==
    /\ applied = NoApplied
    /\ \E p \in PathInputs :
          applied' = [fn |-> "normalizePath", args |-> <<p>>, result |-> normalizePath(p)]
    /\ UNCHANGED <<clientVars, viewVars, runVars, heapVars, blockVars, settleVars>>

ApplyJoinPaths ==
    /\ applied = NoApplied
    /\ \E b \in PathInputs, r \in PathInputs :
          applied' = [fn |-> "joinPaths", args |-> <<b, r>>, result |-> joinPaths(b, r)]
    /\ UNCHANGED <<clientVars, viewVars, runVars, heapVars, blockVars, settleVars>>

ApplyResolvePath ==
    /\ applied = NoApplied
    /\ \E c \in ResolveBaseInputs, s \in ResolveBaseInputs, o \in ResolveBaseInputs,
          r \in PathInputs :
          applied' = [fn |-> "resolvePath", args |-> <<c, s, o, r>>,
                      result |-> resolvePath(c, s, o, r)]
    /\ UNCHANGED <<clientVars, viewVars, runVars, heapVars, blockVars, settleVars>>

ApplyIsValidPath ==
    /\ applied = NoApplied
    /\ \E p \in ValidityInputs :
          applied' = [fn |-> "isValidPath", args |-> <<p>>, result |-> isValidPath(p)]
    /\ UNCHANGED <<clientVars, viewVars, runVars, heapVars, blockVars, settleVars>>

NextPath == ApplyNormalizePath \/ ApplyJoinPaths \/ ApplyResolvePath \/ ApplyIsValidPath

SpecPath == InitPath /\ [][NextPath]_vars

\* ------------------------------------------------------------- claims

Finished(e) == pc = "done" /\ entry = e

\* the positions of the tool calls of the response that belong to the catalog
Matching == {i \in 1..Len(Calls) :
                isFunctionToolCall(Calls[i]) /\ isOpenFilesTool(Calls[i].name)}

\* the backend invocations made for the tool call at position i
Invocations(i) == {j \in 1..Len(backendLog) : backendLog[j].call = i}

\* C1: every create calls the model at most twice, a second time if and
\* only if at least one catalog tool call was executed, and makes no backend
\* call for the tool calls of the continuation response.
C1_AtMostTwoModelCalls ==
    /\ Len(modelLog) <= 2
    /\ Finished("create") =>
          /\ (Len(modelLog) = 2) <=> (backendLog # <<>>)
          /\ \A j \in 1..Len(backendLog) : backendLog[j].call \in Matching
          /\ inflight = {}

\* C2: processToolCalls returns one result per catalog tool call, in call
\* order, and none for any other call; every catalog tool call causes
\* exactly one backend invocation and every other call none; handled is
\* true exactly when a call matched.
C2_ExactlyTheCatalogCalls ==
    Finished("processToolCalls") =>
        /\ outcome.kind = "return"
        /\ Len(outcome.value.results) = Cardinality(Matching)
        /\ \A k \in 1..Len(outcome.value.results) :
              /\ outcome.value.results[k].toolCallId \in {Calls[i].id : i \in Matching}
              /\ \A l \in 1..(k - 1) :
                    outcome.value.results[l].toolCallId
                        < outcome.value.results[k].toolCallId
        /\ \A i \in 1..Len(Calls) :
              Cardinality(Invocations(i)) = IF i \in Matching THEN 1 ELSE 0
        /\ outcome.value.handled <=> (Matching # {})

\* the message of a transport failure does not come from the backend's files
TransportFailure(result) == result.status = "error" /\ result.error = "Network error"

\* C3: the tool calls of a response are executed one at a time in call
\* order, the backend invocation of a call starting only after the one
\* before it has settled, so that a read_file that follows a successful
\* write_file of the same path observes the content just written.
C3_SequentialReadAfterWrite ==
    /\ Cardinality(inflight) <= 1
    /\ Len(results) = Len(backendLog) - Cardinality(inflight)
    /\ \A j \in 1..Len(backendLog) : \A k \in 1..(j - 1) :
          backendLog[k].call < backendLog[j].call
    /\ \A k \in 2..Len(results) :
          ( /\ results[k - 1].function = "write_file"
            /\ results[k - 1].status = "success"
            /\ results[k].function = "read_file"
            /\ results[k].args.path = results[k - 1].args.path
            /\ ~ TransportFailure(results[k]) )
          => /\ results[k].status = "success"
             /\ results[k].data.content = results[k - 1].args.content

\* the messages the continuation request appends to the caller's
Appended == SubSeq(modelLog[2].messages, Len(params.messages) + 1,
                   Len(modelLog[2].messages))

\* C4: when the backend call of a tool call fails, the call yields an error
\* ToolResult carrying the thrown message and an EXECUTION_ERROR tool
\* message, every later tool call of the response is still executed, and
\* create makes exactly one continuation call that carries all results.
C4_FailureDoesNotAbortTurn ==
    (Finished("create") /\ \E k \in 1..Len(results) : results[k].status = "error")
    => /\ Len(results) = Cardinality(Matching)
       /\ Len(modelLog) = 2
       /\ Len(Appended) = Len(results) + 1
       /\ \A k \in 1..Len(results) :
             /\ Appended[k + 1].tool_call_id = results[k].toolCallId
             /\ Appended[k + 1].content.success = (results[k].status = "success")
             /\ results[k].status = "error" =>
                   /\ results[k].error \in
                         {"Network error", "Invalid response format",
                          FailureMessage(ToolOperation(results[k].function))}
                   /\ Appended[k + 1].content =
                         [success |-> FALSE,
                          error |-> [code |-> "EXECUTION_ERROR",
                                     message |-> results[k].error],
                          operation |-> results[k].function]

\* the path or directory argument of a tool call
Relative(toolCall) ==
    IF toolCall.name = "list_files" THEN toolCall.args.directory ELSE toolCall.args.path

\* C5: a path or directory that fails isValidPath is rejected before any
\* backend call: no backend invocation is made for a tool call whose path
\* (or given directory) is invalid, and no invalid path reaches the backend.
C5_InvalidPathsNeverSent ==
    \A j \in 1..Len(backendLog) :
        LET toolCall == Calls[backendLog[j].call]
        IN  (toolCall.name # "list_files" \/ toolCall.args.directory # <<>>)
            => /\ isValidPath(Relative(toolCall))
               /\ isValidPath(backendLog[j].path)

\* the base path of the view that processes the tool calls
ViewBasePath == Provider.basePath

Normalized(p) == p # <<>> /\ normalizePath(p) = p

\* C6: under a tools view with effective base path b, a successful
\* write_file with relative path r makes the backend receive b/r and the
\* ToolResult shows path r, for all non-empty normalized b and r.
C6_WriteScopedAndStripped ==
    \A k \in 1..Len(results) :
        ( /\ results[k].function = "write_file"
          /\ results[k].status = "success"
          /\ Normalized(ViewBasePath)
          /\ Normalized(results[k].args.path) )
        => /\ backendLog[k].path = ViewBasePath \o <<"/">> \o results[k].args.path
           /\ results[k].data.path = results[k].args.path

C6_Witness ==
    /\ Finished("processToolCalls")
    /\ ViewBasePath = <<"p", "/", "p">>
    /\ \E k \in 1..Len(results) :
          /\ results[k].function = "write_file"
          /\ results[k].status = "success"
          /\ results[k].args.path = F
          /\ results[k].data.path = F
          /\ backendLog[k].path = <<"p", "/", "p", "/", "f">>

\* the path the root view prefixes
RootBasePath(view) ==
    normalizePath(EffectiveBasePath(view.client.basePath, view.client.scopedBasePath, <<>>))

\* C7: a view derived by OpenFilesTools.withBasePath, also by chained calls,
\* sends every file operation to the parent's base path joined with the
\* segments and the relative path.
C7_ToolsWithBasePathJoins ==
    \A j \in 1..Len(backendLog) :
        (entry = "processToolCalls" /\ tvSegs # <<>>
            /\ Relative(Calls[backendLog[j].call]) # <<>>)
        => backendLog[j].path =
              JoinAll(<<RootBasePath(tvRoot)>> \o tvSegs
                      \o <<Relative(Calls[backendLog[j].call])>>)

\* C8: every operation of OpenFilesClient sends the backend the path
\* resolve(constructorBasePath, scopedBasePath, params.basePath, params.path):
\* one base path per call, the operation's over the scoped over the
\* constructor's.
C8_OperationsSendResolvedPath ==
    lastReq # NoReq =>
        lastReq.path = resolvePath(cl.basePath, cl.scopedBasePath,
                                   lastReq.basePath, lastReq.relative)

\* C9: client.withBasePath(a).withBasePath(b) of a client with constructor
\* base c sends every relative path r as join(c, a, b, r), slashes
\* normalized and empty segments ignored; likewise for every other depth of
\* chaining.
C9_ClientChainComposes ==
    (lastReq # NoReq /\ lastReq.basePath = <<>> /\ lastReq.relative # <<>>) =>
        lastReq.path = JoinAll(<<cl.basePath>> \o clSegs \o <<lastReq.relative>>)

C9_Witness ==
    /\ cl.basePath = <<"/", "a">>
    /\ clSegs = << <<"b", "/">>, <<"/", "/", "c">> >>
    /\ lastReq # NoReq
    /\ lastReq.op = "writeFile"
    /\ lastReq.basePath = <<>>
    /\ lastReq.relative = <<"/", "d", "/", "/", "f">>
    /\ lastReq.path = <<"a", "/", "b", "/", "c", "/", "d", "/", "f">>

\* C10: a wrapper derived from constructor base c by withBasePath(s1) ...
\* withBasePath(sn) sends the relative path r of every tool call it executes
\* as join(c, s1, ..., sn, r).
C10_WrapperChainComposes ==
    \A j \in 1..Len(backendLog) :
        (entry = "create" /\ Relative(Calls[backendLog[j].call]) # <<>>) =>
            backendLog[j].path =
                JoinAll(<<aiRoot.basePath>> \o aiSegs
                        \o <<Relative(Calls[backendLog[j].call])>>)

C10_Witness ==
    /\ entry = "create"
    /\ aiRoot.basePath = <<"/", "q", "/">>
    /\ aiSegs = << <<"s">>, <<"t", "/">> >>
    /\ backendLog # <<>>
    /\ Calls[backendLog[1].call].name = "write_file"
    /\ backendLog[1].path = <<"q", "/", "s", "/", "t", "/", "f">>

\* C11: create throws only when one of its own model calls throws; no
\* backend failure, argument-parse failure or other error of a single tool
\* call escapes create as an exception.
C11_OnlyModelErrorsEscape ==
    (Finished("create") /\ outcome.kind = "throw") =>
        /\ outcome.message = "model error"
        /\ inflight = {}

\* the catalog tool calls of the response whose arguments are not valid JSON
Unparsable == {i \in Matching : ~ Calls[i].json}

\* C12: a catalog tool call whose arguments are not valid JSON yields an
\* error ToolResult and an error tool message for that call only, the other
\* tool calls of the response are executed, and processToolCalls returns.
C12_MalformedArgumentsAreLocal ==
    (Finished("processToolCalls") /\ Unparsable # {}) =>
        /\ outcome.kind = "return"
        /\ \A i \in Unparsable :
              \E k \in 1..Len(results) :
                  /\ results[k].toolCallId = Calls[i].id
                  /\ results[k].status = "error"
                  /\ toolMessages[k].tool_call_id = Calls[i].id
                  /\ toolMessages[k].content.success = FALSE
        /\ \A i \in Matching \ Unparsable : Cardinality(Invocations(i)) = 1

\* C13: when no tool call of the model's response matches the catalog,
\* create returns that response unchanged after exactly one model call, no
\* backend call and no observer event.
C13_NoMatchReturnsResponse ==
    (entry = "create" /\ response.kind = "completion" /\ Matching = {}) =>
        /\ Len(modelLog) = 1
        /\ backendLog = <<>>
        /\ events = <<>>
        /\ pc = "done" => outcome = [kind |-> "return", value |-> response]

C13_Witness ==
    /\ Finished("create")
    /\ observers = AllObservers
    /\ Len(Calls) = 2
    /\ \A i \in 1..Len(Calls) : Calls[i].name = "get_weather"
    /\ outcome = [kind |-> "return", value |-> response]

\* the catalog tool calls of the response, in call order
RECURSIVE MatchingFrom(_)
MatchingFrom(i) ==
    IF i > Len(Calls) THEN <<>>
    ELSE (IF i \in Matching THEN <<Calls[i]>> ELSE <<>>) \o MatchingFrom(i + 1)

\* C14: when a create has executed at least one catalog tool call, it has
\* sent exactly one continuation request, whose messages are the caller's
\* messages, then the assistant message of the response, then one tool
\* message per executed call in call order, each with the id of its call and
\* the body {success, data, operation} or {success, error, operation} and
\* nothing else; and create returns what the continuation call resolved to,
\* or rejects with the error of the continuation call.
C14_ContinuationCarriesResults ==
    (Finished("create") /\ results # <<>>) =>
        /\ Len(modelLog) = 2
        /\ Len(results) = Len(MatchingFrom(1))
        /\ Len(modelLog[2].messages) = Len(params.messages) + 1 + Len(results)
        /\ SubSeq(modelLog[2].messages, 1, Len(params.messages)) = params.messages
        /\ Appended[1] = [role |-> "assistant",
                          tool_calls |-> response.choices[1].tool_calls]
        /\ \A k \in 1..Len(results) :
              /\ results[k].toolCallId = MatchingFrom(1)[k].id
              /\ Appended[k + 1] =
                    [role |-> "tool", tool_call_id |-> MatchingFrom(1)[k].id,
                     content |->
                        IF results[k].status = "success"
                        THEN [success |-> TRUE, data |-> results[k].data,
                              operation |-> MatchingFrom(1)[k].name]
                        ELSE [success |-> FALSE,
                              error |-> [code |-> "EXECUTION_ERROR",
                                         message |-> results[k].error],
                              operation |-> MatchingFrom(1)[k].name]]
        /\ outcome.kind = "return" =>
              /\ outcome.value \in FinalResponses
              /\ outcome.value # response
        /\ outcome.kind = "throw" => outcome.message = "model error"

\* C15: the first model request of every create carries the eight schemas
\* of the catalog, then the caller's tools in their order, and
\* parallel_tool_calls = false whatever the caller passed; the caller's
\* messages are carried as given.
C15_CatalogInjectedFirst ==
    (entry = "create" /\ modelLog # <<>>) =>
        /\ Len(modelLog[1].tools) = 8 + Len(params.tools)
        /\ \A i \in 1..8 :
              /\ modelLog[1].tools[i] = OpenAIProvider_definitions[i]
              /\ modelLog[1].tools[i].name = ToolNames[i]
        /\ \A i \in 1..Len(params.tools) : modelLog[1].tools[8 + i] = params.tools[i]
        /\ modelLog[1].parallel_tool_calls = "false"
        /\ modelLog[1].messages = params.messages

C15_Witness ==
    /\ entry = "create"
    /\ Len(modelLog) = 1
    /\ params.parallel_tool_calls = "true"
    /\ Len(params.tools) = 2
    /\ modelLog[1].parallel_tool_calls = "false"
    /\ modelLog[1].tools[9].name = "get_weather"

\* C16: when the model call returns a streaming response, create returns
\* that stream unmodified, executes no tool call, makes no backend call and
\* no continuation model call, and emits no observer event.
C16_StreamPassedThrough ==
    (entry = "create" /\ response.kind = "stream") =>
        /\ pc = "done"
        /\ outcome = [kind |-> "return", value |-> response]
        /\ Len(modelLog) = 1
        /\ backendLog = <<>>
        /\ results = <<>>
        /\ events = <<>>

C16_Witness ==
    /\ Finished("create")
    /\ response = Stream
    /\ observers = AllObservers
    /\ aiSegs # <<>>
    /\ outcome.value = Stream

\* the calls made to one observer
Emitted(observer) == {j \in 1..Len(events) : events[j].observer = observer}

Failed == {k \in 1..Len(results) : results[k].status = "error"}

\* C17: for every executed tool call, successful or failed, the registered
\* observers receive one file-operation event and one tool-execution event,
\* and for every failed call one error event in addition.
C17_EventsPerExecutedCall ==
    (entry = "create" /\ observers = AllObservers /\ Len(modelLog) = 2) =>
        /\ Cardinality(Emitted("onFileOperation")) = Len(results)
        /\ Cardinality(Emitted("onToolExecution")) = Len(results)
        /\ Cardinality(Emitted("onError")) = Cardinality(Failed)
        /\ \A k \in 1..Len(results) :
              \E j \in Emitted("onToolExecution") :
                  /\ events[j].toolCallId = results[k].toolCallId
                  /\ events[j].function = results[k].function
                  /\ events[j].success = (results[k].status = "success")

\* C18: the observers do not influence control flow: create ends as it
\* does without observers, with the continuation call made whenever a tool
\* call was executed and never with an exception of an observer.
C18_ObserversDoNotInfluence ==
    Finished("create") =>
        /\ outcome.kind = "throw" => outcome.message # "observer error"
        /\ (idx > Len(Calls) /\ results # <<>>) => Len(modelLog) = 2

\* a schema asks the model for a base path
ExposesBasePath(schema) ==
    \/ "basePath" \in DOMAIN schema.properties
    \/ \E j \in 1..Len(schema.required) : schema.required[j] = "basePath"

\* C19: no tool schema of the OpenAI provider or of the Anthropic provider,
\* and so none of the catalog schemas a model request carries, has a
\* basePath entry in its properties or in its required list.
C19_NoBasePathInSchemas ==
    /\ \A i \in 1..Len(OpenAIProvider_definitions) :
          ~ ExposesBasePath(OpenAIProvider_definitions[i])
    /\ \A i \in 1..Len(AnthropicProvider_definitions) :
          ~ ExposesBasePath(AnthropicProvider_definitions[i])
    /\ \A n \in 1..Len(modelLog) : \A i \in 1..Len(modelLog[n].tools) :
          ExposesBasePath(modelLog[n].tools[i]) =>
              \E j \in 1..Len(params.tools) : params.tools[j] = modelLog[n].tools[i]

C19_Witness ==
    /\ entry = "create"
    /\ Len(modelLog) = 1
    /\ Len(modelLog[1].tools) = 10
    /\ modelLog[1].tools[1].name = "write_file"
    /\ DOMAIN modelLog[1].tools[1].properties = {"path", "content", "contentType"}
    /\ ExposesBasePath(modelLog[1].tools[10])

\* the tool call with the basePath taken out of its arguments
WithoutBasePath(toolCall) == [toolCall EXCEPT !.args.basePath = <<>>]

\* C20: a basePath among the arguments of a tool call has no effect: the
\* backend invocation is the one made for the arguments without it, and the
\* paths of the ToolResult data are the stored paths relative to the
\* executor's base path.
C20_ModelBasePathIgnored ==
    \A k \in 1..Len(results) :
        LET toolCall == Calls[backendLog[k].call]
        IN  /\ backendLog[k] = [call |-> backendLog[k].call]
                               @@ ToolRequest(Provider, WithoutBasePath(toolCall))
            /\ (results[k].status = "success" /\ results[k].data.kind = "metadata") =>
                  results[k].data.path = StripPrefix(Provider.basePath, backendLog[k].path)

C20_Witness ==
    /\ Finished("processToolCalls")
    /\ Len(results) = 2
    /\ Calls[2].name = "edit_file"
    /\ Calls[2].args.basePath = <<"x">>
    /\ results[2].status = "success"
    /\ tv.openai.basePath = <<"p">>
    /\ backendLog[2].path = <<"p", "/", "f">>
    /\ results[2].data.path = F

\* C21: deriving a scoped view never changes its parent: after any
\* derivations and operations every client, tools and wrapper instance sends
\* for each input the path it sent when it was constructed, and every
\* withBasePath returns an instance that did not exist before the call.
C21_DerivationLeavesParent ==
    /\ \A i \in 1..Len(views) : \A c \in ViewCallInputs :
          SentPath(views[i].kind, views[i].fields, c)
              = SentPath(views[i].kind, views[i].born, c)
    /\ derived # NoDerived =>
          /\ derived.returned > derived.allocated
          /\ derived.returned # derived.receiver
    /\ sent # NoSent =>
          sent.path = SentPath(views[sent.view].kind, views[sent.view].born, sent.call)

C21_Witness ==
    /\ Len(views) = 5
    /\ views[4].kind = "tools" /\ views[4].parent = 2
    /\ views[5].kind = "tools" /\ views[5].parent = 4
    /\ views[4].fields # views[2].fields
    /\ sent # NoSent
    /\ sent.view = 2
    /\ sent.call.name = "write_file"
    /\ sent.path = <<"p", "/", "f">>

\* normalize of the specification: the segments of a path joined by single
\* slashes
Canonical(p) == Spell(Segments(p))

\* the first of the base paths that is given
FirstGiven(bases) ==
    IF \A i \in 1..Len(bases) : bases[i] = <<>> THEN <<>>
    ELSE bases[CHOOSE i \in 1..Len(bases) :
                   bases[i] # <<>> /\ \A j \in 1..(i - 1) : bases[j] = <<>>]

\* C22: resolvePath uses the first non-empty of operationBase, scopedBase,
\* constructorBase as effective base, and returns normalize(effectiveBase)
\* when relative is empty and join(effectiveBase, relative) otherwise.
C22_ResolveUsesFirstGivenBase ==
    applied.fn = "resolvePath" =>
        LET effectiveBase == FirstGiven(<<applied.args[3], applied.args[2], applied.args[1]>>)
            relative      == applied.args[4]
        IN  applied.result = IF relative = <<>> THEN Canonical(effectiveBase)
                             ELSE JoinAll(<<effectiveBase, relative>>)

C22_Witness ==
    /\ applied.fn = "resolvePath"
    /\ applied.args = << <<"a", "a">>, <<"/", "a">>, <<>>, <<"/", "b", "/">> >>
    /\ applied.result = <<"a", "/", "b">>

\* a path in normalized form: no leading slash, no trailing slash, no two
\* consecutive slashes
IsNormalForm(p) ==
    /\ p # <<>> => (p[1] # "/" /\ p[Len(p)] # "/")
    /\ \A i \in 1..(Len(p) - 1) : ~ (p[i] = "/" /\ p[i + 1] = "/")

\* C23: normalizePath is idempotent and canonical: normalize(normalize(p)) =
\* normalize(p), the result has no leading, trailing or doubled slash, and
\* the empty path and a path made only of slashes normalize to the empty path.
C23_NormalizeIdempotent ==
    applied.fn = "normalizePath" =>
        /\ normalizePath(applied.result) = applied.result
        /\ IsNormalForm(applied.result)
        /\ applied.result = Canonical(applied.args[1])
        /\ (\A i \in 1..Len(applied.args[1]) : applied.args[1][i] = "/") =>
              applied.result = <<>>

C23_Witness ==
    /\ applied.fn = "normalizePath"
    /\ applied.args = << <<"a", "/", "/", "b">> >>
    /\ applied.result = <<"a", "/", "b">>

\* C24: joinPaths(base, rel) is the normalized other side when a side is
\* empty after normalization, the empty path when both are, and
\* normalize(base) + "/" + normalize(rel) otherwise; it is in normalized form.
C24_JoinOfNormalizedSides ==
    applied.fn = "joinPaths" =>
        LET base == Canonical(applied.args[1])
            rel  == Canonical(applied.args[2])
        IN  /\ applied.result = IF base = <<>> THEN rel
                                ELSE IF rel = <<>> THEN base
                                ELSE base \o <<"/">> \o rel
            /\ IsNormalForm(applied.result)

C24_Witness ==
    /\ applied.fn = "joinPaths"
    /\ applied.args = << <<"a", "/", "/">>, <<"/", "b", "/">> >>
    /\ applied.result = <<"a", "/", "b">>

ControlChars == {"\t", "\n"}
SpecialChars == {"<", ">", ":", "\"", "|", "?", "*"}

\* a path the validity predicate has to reject
Rejected(p) ==
    \/ \A i \in 1..Len(p) : p[i] \in {" "} \cup ControlChars
    \/ \E i \in 1..(Len(p) - 1) : <<p[i], p[i + 1]>> = <<".", ".">>
    \/ \E i \in 1..Len(p) : p[i] \in ControlChars \cup SpecialChars

\* C25: isValidPath(p) is false exactly when p is empty or whitespace-only,
\* contains "..", a control character or one of < > : " | ? *, and true for
\* every other path.
C25_ValidityPredicate ==
    applied.fn = "isValidPath" => (applied.result <=> ~ Rejected(applied.args[1]))

C25_Witness ==
    /\ applied.fn = "isValidPath"
    /\ applied.args = << <<"a", ".", ".">> >>
    /\ applied.result = FALSE

\* the positions of the tool_use blocks of the catalog in the response
RECURSIVE ToolUseFrom(_)
ToolUseFrom(i) ==
    IF i > Len(Content) THEN <<>>
    ELSE IF Content[i].type = "tool_use" /\ Content[i].name \in {ToolNames[n] : n \in 1..8}
    THEN <<i>> \o ToolUseFrom(i + 1)
    ELSE ToolUseFrom(i + 1)

\* C26: AnthropicProvider.processToolCalls returns at most one tool message:
\* exactly one {role: "user"} message holding one tool_result per executed
\* catalog tool_use block, in block order and with the block's id, when a
\* block was executed, and no message when none was.
C26_OneUserMessagePerResponse ==
    Finished("anthropic") =>
        /\ outcome.kind = "return"
        /\ LET executed == ToolUseFrom(1)
               messages == outcome.value.toolMessages
           IN  /\ Len(messages) <= 1
               /\ executed = <<>> => messages = <<>>
               /\ executed # <<>> =>
                     /\ Len(messages) = 1
                     /\ messages[1].role = "user"
                     /\ Len(messages[1].content) = Len(executed)
                     /\ \A k \in 1..Len(executed) :
                           /\ messages[1].content[k].type = "tool_result"
                           /\ messages[1].content[k].tool_use_id = Content[executed[k]].id
                           /\ messages[1].content[k].content.operation
                                 = Content[executed[k]].name

C26_Witness ==
    /\ Finished("anthropic")
    /\ Len(Content) = 3
    /\ ToolUseFrom(1) = <<1, 3>>
    /\ Len(outcome.value.toolMessages) = 1
    /\ outcome.value.toolMessages[1].content[1].content.success
    /\ ~ outcome.value.toolMessages[1].content[2].content.success

SetOf(seq) == {seq[i] : i \in 1..Len(seq)}

\* C27: the OpenAI catalog and the Anthropic catalog describe the same eight
\* operations in the same order, with identical parameter names, parameter
\* types and required sets.
C27_CatalogsAgree ==
    Finished("definitions") =>
        LET openai    == outcome.value.openai
            anthropic == outcome.value.anthropic
        IN  /\ Len(openai) = 8
            /\ Len(anthropic) = 8
            /\ \A i \in 1..8 :
                  /\ openai[i].name = anthropic[i].name
                  /\ DOMAIN openai[i].properties = DOMAIN anthropic[i].properties
                  /\ \A parameter \in DOMAIN openai[i].properties :
                        openai[i].properties[parameter]
                            = anthropic[i].properties[parameter]
                  /\ SetOf(openai[i].required) = SetOf(anthropic[i].required)
            /\ \A i \in 1..8, j \in 1..8 : openai[i].name = openai[j].name => i = j

C27_Witness ==
    /\ Finished("definitions")
    /\ tvSegs # <<>>
    /\ outcome.value.openai[2].name = "read_file"
    /\ outcome.value.anthropic[2].properties.version = "number"
    /\ outcome.value.anthropic[8].required = <<"path", "limit", "offset">>

\* C28: every ToolResult of processToolCalls, of either provider, has exactly
\* one of data and error: a "success" result carries data and no error, an
\* "error" result carries a message and no data.
C28_DataOrError ==
    \A k \in 1..Len(results) :
        LET result == results[k]
        IN  /\ result.status \in {"success", "error"}
            /\ result.status = "success" =>
                  /\ "data" \in DOMAIN result
                  /\ "error" \notin DOMAIN result
                  /\ result.data.kind \in {"metadata", "content", "files", "versions"}
            /\ result.status = "error" =>
                  /\ "error" \in DOMAIN result
                  /\ "data" \notin DOMAIN result
                  /\ result.error # ""

C28_Witness ==
    /\ Finished("processToolCalls")
    /\ Len(results) = 2
    /\ results[1].status = "success"
    /\ results[2].status = "error"
    /\ results[2].error = "Failed to write file"

\* C29: the path or directory an operation of the client passes to the
\* backend is pre-resolved and has no leading slash, whatever the base paths
\* and the path or directory argument, an omitted directory included.
C29_NoLeadingSlashSent ==
    lastReq # NoReq =>
        /\ lastReq.path = <<>> \/ Head(lastReq.path) # "/"
        /\ normalizePath(lastReq.path) = lastReq.path

\* the error the specification names for each operation
OperationError(op) ==
    CASE op = "writeFile"       -> "Failed to write file"
      [] op = "readFile"        -> "Failed to read file"
      [] op = "editFile"        -> "Failed to edit file"
      [] op = "appendToFile"    -> "Failed to append to file"
      [] op = "overwriteFile"   -> "Failed to overwrite file"
      [] op = "listFiles"       -> "Failed to list files"
      [] op = "getFileMetadata" -> "Failed to get file metadata"
      [] op = "getFileVersions" -> "Failed to get file versions"

\* the backend response carries success = true together with data
CarriesData(a) ==
    /\ a.kind = "response" /\ a.success /\ "data" \in DOMAIN a
    /\ a.data # [kind |-> "string", value |-> <<>>]

\* C30: an operation of the client whose backend response does not carry
\* success = true together with data rejects with the error of that
\* operation, returns no value, and has made exactly one backend call.
C30_FailureRejectsAfterOneCall ==
    (Finished("operation") /\ answer.kind = "response" /\ ~ CarriesData(answer)) =>
        /\ outcome = [kind |-> "throw", message |-> OperationError(lastReq.op)]
        /\ Len(backendLog) = 1
        /\ backendLog[1].op = lastReq.op
        /\ inflight = {}

C30_Witness ==
    /\ Finished("operation")
    /\ lastReq.op = "getFileVersions"
    /\ answer = [kind |-> "response", success |-> TRUE]
    /\ outcome = [kind |-> "throw", message |-> "Failed to get file versions"]

\* the backend method the specification names for each catalog operation
Dispatch(name) ==
    CASE name = "write_file"        -> "writeFile"
      [] name = "read_file"         -> "readFile"
      [] name = "edit_file"         -> "editFile"
      [] name = "list_files"        -> "listFiles"
      [] name = "append_to_file"    -> "appendToFile"
      [] name = "overwrite_file"    -> "overwriteFile"
      [] name = "get_file_metadata" -> "getFileMetadata"
      [] name = "get_file_versions" -> "getFileVersions"

\* the schema of the catalog for an operation name
SchemaOf(name) ==
    OpenAIProvider_definitions[CHOOSE i \in 1..Len(OpenAIProvider_definitions) :
                                   OpenAIProvider_definitions[i].name = name]

\* the values the model supplied for the parameters of the operation's
\* schema, and nothing else of its arguments; a version of 0 stands for none
Supplied(name, args) ==
    LET given == [q \in DOMAIN NoArgs |->
                     IF q \in DOMAIN SchemaOf(name).properties THEN args[q] ELSE NoArgs[q]]
    IN  [basePath    |-> <<>>,
         path        |-> IF name = "list_files" THEN given.directory ELSE given.path,
         content     |-> given.content,
         oldString   |-> given.oldString,
         newString   |-> given.newString,
         version     |-> IF given.version = 0 THEN NoVersion ELSE given.version,
         contentType |-> given.contentType,
         isBase64    |-> given.isBase64,
         recursive   |-> given.recursive,
         limit       |-> given.limit,
         offset      |-> given.offset]

\* C31: every catalog operation name is dispatched to its own backend method
\* with the values the model supplied for the parameters of its schema, and
\* no catalog name ends in the "Unknown tool" error.
C31_DispatchByName ==
    /\ \A k \in 1..Len(backendLog) :
          LET toolCall == Calls[backendLog[k].call]
          IN  backendLog[k] = [call |-> backendLog[k].call]
                              @@ ClientRequest(Provider.client, Dispatch(toolCall.name),
                                               Supplied(toolCall.name, toolCall.args))
    /\ \A k \in 1..Len(results) :
          results[k].status = "error" => results[k].error # "Unknown tool"

C31_Witness ==
    /\ Finished("processToolCalls")
    /\ Len(backendLog) = 2
    /\ Calls[2].name = "get_file_versions"
    /\ Calls[2].args.limit = 5
    /\ backendLog[2].op = "getFileVersions"
    /\ backendLog[2].limit = 5
    /\ backendLog[2].offset = 1
    /\ results[2].status = "success"

\* C32: for read_file and get_file_metadata a version argument of 0 makes
\* the backend call without a version (the latest), and any other version
\* is forwarded unchanged.
C32_VersionZeroIsLatest ==
    \A k \in 1..Len(backendLog) :
        LET toolCall == Calls[backendLog[k].call]
        IN  toolCall.name \in {"read_file", "get_file_metadata"} =>
                backendLog[k].version = IF toolCall.args.version = 0 THEN NoVersion
                                        ELSE toolCall.args.version

C32_Witness ==
    /\ Finished("processToolCalls")
    /\ Len(results) = 2
    /\ Calls[2].name = "get_file_metadata"
    /\ Calls[2].args.version = 0
    /\ backendLog[2].version = NoVersion
    /\ results[2].status = "success"
    /\ results[2].data.version = 1

\* the path relative to a base path it lies under, the path itself otherwise
RelativeTo(base, path) ==
    IF /\ base # <<>>
       /\ Len(path) > Len(base)
       /\ \A i \in 1..Len(base) : path[i] = base[i]
       /\ path[Len(base) + 1] = "/"
    THEN [i \in 1..(Len(path) - Len(base) - 1) |-> path[Len(base) + 1 + i]]
    ELSE path

\* the data of a successful backend response as the model is to see it
Shown(base, data) ==
    CASE data.kind = "metadata" -> [data EXCEPT !.path = RelativeTo(base, @)]
      [] data.kind = "files" ->
            [data EXCEPT !.files = {[f EXCEPT !.path = RelativeTo(base, @)] : f \in @}]
      [] data.kind = "versions" ->
            [data EXCEPT !.versions = {[v EXCEPT !.path = RelativeTo(base, @)] : v \in @}]
      [] data.kind = "file" -> [kind |-> "content", content |-> data.content]

\* C33: stripping applies to every path of a successful result: the path of a
\* metadata record and of each record of a files or versions array loses the
\* active base path it starts with, the content of read_file is returned as
\* it is, and the backend's own result keeps its paths.
C33_EveryPathStripped ==
    (results # <<>> /\ answer.kind = "response" /\ results[Len(results)].status = "success") =>
        /\ results[Len(results)].data = Shown(Provider.basePath, answer.data)
        /\ answer.data.kind = "metadata" =>
              answer.data.path = backendLog[Len(results)].path

C33_Witness ==
    /\ Finished("processToolCalls")
    /\ Provider.basePath = <<"p">>
    /\ Len(results) = 2
    /\ results[2].status = "success"
    /\ CarriesData(answer)
    /\ answer.data.kind = "files"
    /\ \E f \in answer.data.files : f.path = <<"p", "/", "f">>
    /\ \E f \in results[2].data.files : f.path = F

\* the content of a file that begins with the base path is returned whole
C33_ContentWitness ==
    /\ Finished("processToolCalls")
    /\ Provider.basePath = <<"p">>
    /\ Len(results) = 2
    /\ results[2].status = "success"
    /\ results[2].data = [kind |-> "content", content |-> <<"p", "/", "x">>]

\* path is the base path or lies under it
Under(base, path) == path = base \/ StartsWith(path, base \o <<"/">>)

\* one of two base paths is a segment-prefix of the other
Comparable(b1, b2) == Under(b1, b2) \/ Under(b2, b1)

\* base paths of other views
OtherBases == { <<"p">>, <<"q">>, <<"s">>, <<"p", "/", "s">>, <<"q", "/", "p">>,
                <<"p", "p">> }

\* the normalized base path the client of the view resolves with
ScopeBasePath ==
    normalizePath(EffectiveBasePath(Provider.client.basePath,
                                    Provider.client.scopedBasePath, <<>>))

\* C34: under a tools view whose effective base path b is not empty, every
\* path or directory a tool call sends to the backend is normalize(b) or
\* starts with normalize(b) + "/", and so is not under the base path of a
\* view whose base path is no segment-prefix of b and has none in b.
C34_ToolCallsConfined ==
    (entry \in {"processToolCalls", "anthropic"} /\ ScopeBasePath # <<>>) =>
        /\ normalizePath(ViewBasePath) = ScopeBasePath
        /\ \A j \in 1..Len(backendLog) :
              /\ Under(ScopeBasePath, backendLog[j].path)
              /\ \A other \in OtherBases :
                    ~ Comparable(ScopeBasePath, other) => ~ Under(other, backendLog[j].path)

C34_Witness ==
    /\ Finished("processToolCalls")
    /\ tvRoot.client.basePath = <<"/", "q", "/">>
    /\ tvSegs = << <<"t", "/">> >>
    /\ ViewBasePath = <<"q", "/", "t", "/", "t", "/">>
    /\ Len(backendLog) = 1
    /\ Calls[1].args.path = <<".", ".", "/", "f">>
    /\ backendLog[1].path = <<"q", "/", "t", "/", "t", "/", ".", ".", "/", "f">>

\* C35: in the continuation request the tool messages and the tool calls of
\* the assistant message before them correspond one to one: each tool
\* message answers a tool call of that message, and each of its tool calls
\* is answered by exactly one tool message.
C35_ToolMessagesAnswerAssistant ==
    Len(modelLog) = 2 =>
        LET messages  == modelLog[2].messages
            assistant == messages[Len(params.messages) + 1]
            answers   == {k \in (Len(params.messages) + 2)..Len(messages) :
                             messages[k].role = "tool"}
        IN  /\ \A k \in answers :
                  \E i \in 1..Len(assistant.tool_calls) :
                      assistant.tool_calls[i].id = messages[k].tool_call_id
            /\ \A i \in 1..Len(assistant.tool_calls) :
                  Cardinality({k \in answers :
                      messages[k].tool_call_id = assistant.tool_calls[i].id}) = 1

\* C36: the base path the results are stripped with is the normalized base
\* path the client resolves with: a path join(base, r) returned by the
\* backend is shown to the model as r, however the view was configured.
C36_StripMatchesResolve ==
    \A k \in 1..Len(results) :
        (results[k].status = "success" /\ results[k].data.kind = "metadata") =>
            /\ backendLog[k].path = JoinAll(<<ScopeBasePath, Relative(Calls[backendLog[k].call])>>)
            /\ results[k].data.path = JoinAll(<<Relative(Calls[backendLog[k].call])>>)

\* C37: listFiles sends the same directory whether the directory is omitted
\* or given as "/", with and without a base path.
C37_RootListedAlike ==
    (lastReq # NoReq /\ lastReq.op = "listFiles" /\ lastReq.relative \in {<<>>, <<"/">>}) =>
        /\ lastReq.path = RequestPath(cl, "listFiles", lastReq.basePath, <<>>)
        /\ lastReq.path = RequestPath(cl, "listFiles", lastReq.basePath, <<"/">>)


\* ---------------------------------------------------------------- C38
\* C38: readFile returns the content string of every successful response:
\* whenever the backend answered a readFile with success and a data object
\* that carries a content, the empty content included, the operation
\* returns exactly that content and does not throw.
C38_ReadReturnsContent ==
    (/\ entry = "operation" /\ pc = "done"
     /\ lastReq # NoReq /\ lastReq.op = "readFile"
     /\ answer.kind = "response" /\ answer.success
     /\ CarriesData(answer) /\ "content" \in DOMAIN answer.data) =>
        /\ outcome.kind = "return"
        /\ outcome.value = [kind |-> "content", content |-> answer.data.content]


\* ---------------------------------------------------------------- C39
\* C39: the continuation request of create differs from the caller's params
\* in its messages only: it carries the caller's own tools and
\* parallel_tool_calls, not the injected catalog nor the forced false, and
\* its messages begin with the caller's messages; the caller's params and
\* their messages are the same object after the call as before it.
C39_ContinuationFromCallerParams ==
    /\ [](Len(modelLog) = 2 =>
            /\ DOMAIN modelLog[2] = DOMAIN params
            /\ \A field \in DOMAIN params \ {"messages"} :
                  modelLog[2][field] = params[field]
            /\ modelLog[2].tools = params.tools
            /\ modelLog[2].parallel_tool_calls = params.parallel_tool_calls
            /\ modelLog[1].tools = OpenAIProvider_definitions \o modelLog[2].tools
            /\ Len(modelLog[2].messages) > Len(params.messages)
            /\ SubSeq(modelLog[2].messages, 1, Len(params.messages)) = params.messages
            /\ modelLog[1].messages = params.messages)
    /\ [][(entry = "create" /\ pc # "idle") => params' = params]_vars

C39_Witness ==
    /\ Finished("create")
    /\ Len(modelLog) = 2
    /\ params.tools # <<>>
    /\ params.parallel_tool_calls = "true"
    /\ modelLog[1].parallel_tool_calls = "false"
    /\ modelLog[2].parallel_tool_calls = "true"
    /\ Len(modelLog[2].tools) = 2
    /\ Len(modelLog[1].tools) = 10


\* ---------------------------------------------------------------- C40
\* C40: every create terminates: when each model call and each backend call
\* eventually completes, a create that has been called eventually returns a
\* response or throws, and at no time has it made more backend calls than
\* the first response has tool calls.
C40_CreateTerminates ==
    /\ (entry = "create" /\ pc # "done")
            ~> (/\ entry = "create" /\ pc = "done"
                /\ outcome.kind \in {"return", "throw"})
    /\ [](entry = "create" => Len(backendLog) <= Len(Calls))

C40_Witness ==
    /\ Finished("create")
    /\ Len(modelLog) = 2
    /\ Len(Calls) = MaxCalls
    /\ Len(backendLog) = MaxCalls
    /\ outcome.kind = "return"

\* a create that ends after fewer backend calls than the response has tool
\* calls
C40_FewerCallsWitness ==
    /\ Finished("create")
    /\ Len(Calls) = MaxCalls
    /\ Len(backendLog) = 1
    /\ outcome.kind = "throw"

====
